---- MODULE Spec2Model ----
(***************************************************************************)
(* A model of the balloon shooter (agdpp.py, geometry.py, sprites.py,      *)
(* gameloop.py): the geometry value types, the bow and its arrows, the     *)
(* balloon population, the input handler, and the start / gameplay scenes. *)
(*                                                                         *)
(* Conventions                                                             *)
(*  - A Point is a record [x, y] of integers.  Every input of the model    *)
(*    (positions, dt, turn factors) is chosen so that the floating point   *)
(*    arithmetic of the program is exact on it.                            *)
(*  - An Angle is its number of degrees (an integer).  Angle.add does not  *)
(*    normalise, and neither does the model.                               *)
(*  - Arrow objects are mutable and shared by reference: they live in a    *)
(*    heap and are named by their identity.                                *)
(*  - A turn factor is kept in thousandths (1000 is the factor 1).         *)
(***************************************************************************)
EXTENDS Integers, Sequences, FiniteSets, TLC

VARIABLES
    heap,           \* the Arrow objects alive: identity -> fields
    bow,            \* a Bow under test: the identity of its nocked Arrow
    shot,           \* the arrows bow.shoot() has returned so far, in order
    balloons,       \* the Balloons group of the scene (or under test)
    input_handler,  \* the InputHandler of the scene
    bows,           \* GameplayScene.bows: <<[player, bow]>> in insertion order
    flying_arrows,  \* GameplayScene.flying_arrows: its sprites
    score,          \* GameplayScene.score.score
    active_scene,   \* the class of GameScene.active_scene
    pending_players,\* StartScene.pending_players
    players,        \* StartScene.players: None or the list pending_players names
    fed,            \* the sources of the shoot events fed since the last update (history)
    popped,         \* how many balloons left the scene together with an arrow (history)
    last,           \* the operation performed last (history)
    group,          \* a SpriteGroup under test, its list objects and its callers
    loop,           \* a GameLoop under test: where run() is and what it has done
    keys_down,      \* the turn keys pressed and not yet released (history)
    turned,         \* the input sources that sent a turn event, in order (history)
    startup,        \* a StartupApplication under test: where run() is, its scene
    geometry        \* the arguments and the result of a geometry call under test

bowVars   == <<bow, shot>>
sceneVars == <<input_handler, bows, flying_arrows, score>>
startVars == <<active_scene, pending_players, players>>
histVars  == <<fed, popped>>
idleVars  == <<group, keys_down, turned, startup, geometry>>
vars      == <<heap, bow, shot, balloons, input_handler, bows, flying_arrows,
               score, active_scene, pending_players, players, fed, popped, last,
               group, loop, keys_down, turned, startup, geometry>>

(***************************************************************************)
(* Bounds of the model.                                                    *)
(***************************************************************************)
MaxTurnSteps == 8       \* Bow.turn deltas are k*45 degrees, |k| <= MaxTurnSteps
MaxDegrees   == 720     \* |degrees| of an aim angle the model follows
MaxShot      == 1       \* arrows held from bow.shoot() in the bow harness
MaxTarget    == 2       \* largest number_of_balloons of a Balloons under test
MaxGiven     == 2       \* most positions handed to the Balloons constructor
MaxScore     == 2       \* the score up to which the model follows a game
MaxArrows    == 2       \* most arrows in flight at once
MaxSprites   == 3       \* sprites added to a SpriteGroup under test
MaxTriggered == 1       \* shots an InputHandler under test buffers between updates
MaxIterations == 2      \* iterations of the FiniteLoopCondition of a StartupApplication
MaxCursor    == 600     \* how far from the origin the cursor of the StartupScene is followed
MaxOps       == 2       \* inflate and deflate calls applied in a row to a Rectangle under test
MaxAmount    == 2       \* largest amount a Rectangle under test is inflated or deflated by
MaxBatches   == 3       \* event batches of a script handed to run_in_test_mode

(***************************************************************************)
(* geometry.py                                                             *)
(***************************************************************************)
Point(x, y) == [x |-> x, y |-> y]

move(p, dx, dy) == Point(p.x + dx, p.y + dy)

add(p, q) == move(p, q.x, q.y)

times(p, magnification) == Point(p.x * magnification, p.y * magnification)

Rectangle(topleft, bottomright) == [topleft |-> topleft, bottomright |-> bottomright]

from_size(width, height) == Rectangle(Point(0, 0), Point(width, height))

inflate(r, amount) ==
    Rectangle(move(r.topleft, -amount, -amount), move(r.bottomright, amount, amount))

\* Variant of deflate that passes the amount on unchanged.
deflate_outwards(r, amount) == inflate(r, amount)

deflate(r, amount) == inflate(r, -amount)

\* Variant of contains that leaves the right edge out.
contains_open_right(r, point) ==
    IF point.x < r.topleft.x THEN FALSE
    ELSE IF point.x >= r.bottomright.x THEN FALSE
    ELSE IF point.y < r.topleft.y THEN FALSE
    ELSE IF point.y > r.bottomright.y THEN FALSE
    ELSE TRUE

contains(r, point) ==
    IF point.x < r.topleft.x THEN FALSE
    ELSE IF point.x > r.bottomright.x THEN FALSE
    ELSE IF point.y < r.topleft.y THEN FALSE
    ELSE IF point.y > r.bottomright.y THEN FALSE
    ELSE TRUE

(***************************************************************************)
(* geometry.py with float coordinates.  Point.move adds with Python's +,   *)
(* which is exact on ints and rounds to the nearest double on floats.  A   *)
(* double near a multiple of 0.1 is [tenths, off]: the double nearest to   *)
(* tenths/10 (what the literal 0.1, 0.2, ... denotes) plus off times       *)
(* 2^-56.  FloatSums lists IEEE-754 binary64 additions x + a = s           *)
(* (round-to-nearest-even) as <<x.tenths, x.off, a.tenths, s.tenths,       *)
(* s.off>>, for the x reached from 0.0, 0.1, 0.2 and 0.3 by up to three    *)
(* additions of a literal a in -0.2 .. 0.2.                                *)
(***************************************************************************)
Float(tenths, off) == [tenths |-> tenths, off |-> off]

FloatSums ==
    {
     <<-4, 0, -2, -6, -8>>, <<-4, 0, -1, -5, 0>>, <<-4, 0, 0, -4, 0>>, <<-4, 0, 1, -3, -4>>,
     <<-4, 0, 2, -2, 0>>, <<-3, -4, -2, -5, 0>>, <<-3, -4, -1, -4, 0>>, <<-3, -4, 0, -3, -4>>,
     <<-3, -4, 1, -2, -2>>, <<-3, -4, 2, -1, -2>>, <<-2, 0, -2, -4, 0>>, <<-2, 0, -1, -3, -4>>,
     <<-2, 0, 0, -2, 0>>, <<-2, 0, 1, -1, 0>>, <<-2, 0, 2, 0, 0>>, <<-1, -2, -2, -3, -4>>,
     <<-1, -2, -1, -2, -2>>, <<-1, -2, 0, -1, -2>>, <<-1, -2, 1, 0, -2>>, <<-1, -2, 2, 1, -2>>,
     <<-1, 0, -2, -3, -4>>, <<-1, 0, -1, -2, 0>>, <<-1, 0, 0, -1, 0>>, <<-1, 0, 1, 0, 0>>,
     <<-1, 0, 2, 1, 0>>, <<0, -2, -2, -2, -2>>, <<0, -2, -1, -1, -2>>, <<0, -2, 0, 0, -2>>,
     <<0, -2, 1, 1, -2>>, <<0, -2, 2, 2, -2>>, <<0, 0, -2, -2, 0>>, <<0, 0, -1, -1, 0>>,
     <<0, 0, 0, 0, 0>>, <<0, 0, 1, 1, 0>>, <<0, 0, 2, 2, 0>>, <<1, -2, -2, -1, -2>>,
     <<1, -2, -1, 0, -2>>, <<1, -2, 0, 1, -2>>, <<1, -2, 1, 2, -2>>, <<1, -2, 2, 3, 0>>,
     <<1, 0, -2, -1, 0>>, <<1, 0, -1, 0, 0>>, <<1, 0, 0, 1, 0>>, <<1, 0, 1, 2, 0>>,
     <<1, 0, 2, 3, 4>>, <<1, 2, -2, -1, 2>>, <<1, 2, -1, 0, 2>>, <<1, 2, 0, 1, 2>>,
     <<1, 2, 1, 2, 2>>, <<1, 2, 2, 3, 4>>, <<2, -2, -2, 0, -2>>, <<2, -2, -1, 1, -2>>,
     <<2, -2, 0, 2, -2>>, <<2, -2, 1, 3, 0>>, <<2, -2, 2, 4, 0>>, <<2, 0, -2, 0, 0>>,
     <<2, 0, -1, 1, 0>>, <<2, 0, 0, 2, 0>>, <<2, 0, 1, 3, 4>>, <<2, 0, 2, 4, 0>>,
     <<2, 2, -2, 0, 2>>, <<2, 2, -1, 1, 2>>, <<2, 2, 0, 2, 2>>, <<2, 2, 1, 3, 4>>,
     <<2, 2, 2, 4, 0>>, <<3, 0, -2, 1, -2>>, <<3, 0, -1, 2, -2>>, <<3, 0, 0, 3, 0>>,
     <<3, 0, 1, 4, 0>>, <<3, 0, 2, 5, 0>>, <<3, 4, -2, 1, 2>>, <<3, 4, -1, 2, 2>>,
     <<3, 4, 0, 3, 4>>, <<3, 4, 1, 4, 0>>, <<3, 4, 2, 5, 0>>, <<4, 0, -2, 2, 0>>,
     <<4, 0, -1, 3, 4>>, <<4, 0, 0, 4, 0>>, <<4, 0, 1, 5, 0>>, <<4, 0, 2, 6, 8>>,
     <<5, 0, -2, 3, 0>>, <<5, 0, -1, 4, 0>>, <<5, 0, 0, 5, 0>>, <<5, 0, 1, 6, 0>>,
     <<5, 0, 2, 7, 0>>, <<6, 0, -2, 4, -4>>, <<6, 0, -1, 5, 0>>, <<6, 0, 0, 6, 0>>,
     <<6, 0, 1, 7, 0>>, <<6, 0, 2, 8, 0>>, <<6, 8, -2, 4, 4>>, <<6, 8, -1, 5, 8>>,
     <<6, 8, 0, 6, 8>>, <<6, 8, 1, 7, 8>>, <<6, 8, 2, 8, 0>>, <<7, 0, -2, 5, -4>>,
     <<7, 0, -1, 6, 0>>, <<7, 0, 0, 7, 0>>, <<7, 0, 1, 8, -8>>, <<7, 0, 2, 9, -8>>
    }

\* x + a is among the listed additions.
float_add_listed(x, a) ==
    /\ a.off = 0
    /\ \E s \in FloatSums : s[1] = x.tenths /\ s[2] = x.off /\ s[3] = a.tenths

\* x + a on doubles.
float_add(x, a) ==
    LET s == CHOOSE s \in FloatSums :
                 s[1] = x.tenths /\ s[2] = x.off /\ s[3] = a.tenths
    IN Float(s[4], s[5])

\* -a on doubles (exact).
float_neg(a) == Float(-a.tenths, -a.off)

\* Point.move on doubles.
move_float(p, dx, dy) == Point(float_add(p.x, dx), float_add(p.y, dy))

\* Rectangle.inflate on doubles.
inflate_float(r, amount) ==
    Rectangle(move_float(r.topleft, float_neg(amount), float_neg(amount)),
              move_float(r.bottomright, amount, amount))

\* Rectangle.deflate on doubles.
deflate_float(r, amount) == inflate_float(r, float_neg(amount))

\* Every addition of inflate(amount) and of inflate(-amount) is listed.
inflate_listed(r, amount) ==
    \A x \in {r.topleft.x, r.topleft.y, r.bottomright.x, r.bottomright.y} :
        float_add_listed(x, amount) /\ float_add_listed(x, float_neg(amount))

\* Angle.up(): -90 degrees.
up == -90

\* Angle.add: the degrees are added, never normalised.
angle_add(a, b) == a + b

\* Angle.fraction_of_whole(num/den): 360 * fraction.  The model feeds it
\* fractions whose product with 360 is an integer.
fraction_of_whole(num, den) == (360 * num) \div den

\* The sign of to_unit_point().y = math.sin(math.radians(degrees)) as IEEE
\* doubles compute it (valid for |degrees| <= 1800).  At a multiple of 180
\* the sine is not 0 but a residue of about 1e-16 whose sign depends on the
\* multiple: sin(radians(-180)) = -1.2e-16, sin(radians(180)) = +1.2e-16,
\* sin(radians(360)) = -2.4e-16, sin(radians(-360)) = +2.4e-16, sin(0) = 0.
unit_y_sign(degrees) ==
    LET m == degrees % 360 IN
    IF m = 0 THEN (IF degrees = 0 THEN 0 ELSE IF degrees > 0 THEN -1 ELSE 1)
    ELSE IF m = 180 THEN (IF degrees > 0 THEN 1 ELSE -1)
    ELSE IF m < 180 THEN 1
    ELSE -1

\* Angle.to_unit_point() on the axis directions, the only directions the
\* moving arrows of the model take.  The residue of about 1e-16 in the
\* component that is mathematically 0 is below the resolution of the integer
\* grid and is dropped here; its sign is kept by unit_y_sign.
to_unit_point(degrees) ==
    LET m == degrees % 360 IN
    CASE m = 0   -> Point(1, 0)
      [] m = 90  -> Point(0, 1)
      [] m = 180 -> Point(-1, 0)
      [] m = 270 -> Point(0, -1)

Abs(n) == IF n < 0 THEN -n ELSE n

(***************************************************************************)
(* agdpp.py: Arrow and Bow.  Arrows are mutable objects that several       *)
(* holders may reference (a Bow, the flying-arrows group, a caller), so    *)
(* they live in a heap h: identity -> fields, and are passed by identity.  *)
(***************************************************************************)
EmptyHeap == <<>>

\* The identity of the next object created in heap h.
NewId(h) == CHOOSE i \in 0..Cardinality(DOMAIN h) : i \notin DOMAIN h

\* Arrow.__init__: the fields of an Arrow.
Arrow(shooting, position, angle, color) ==
    [shooting |-> shooting, position |-> position, angle |-> angle, color |-> color]

\* A constructor call: the heap with the new object in it.
alloc(h, object) == h @@ (NewId(h) :> object)

\* Arrow.get_angle / Arrow.get_position
get_angle(h, a) == h[a].angle

get_position(h, a) == h[a].position

\* Arrow.set_angle
set_angle(h, a, angle) == [h EXCEPT ![a].angle = angle]

\* Variant of clone_shooting that forgets the angle.
clone_default_angle(h, a) ==
    [heap   |-> alloc(h, Arrow(TRUE, h[a].position, up, h[a].color)),
     result |-> NewId(h)]

\* Variant of clone_shooting that returns the nocked arrow itself.
clone_alias(h, a) ==
    [heap   |-> [h EXCEPT ![a].shooting = TRUE],
     result |-> a]

\* Arrow.clone_shooting: a new Arrow object, shooting, with the fields of
\* arrow a.  [heap: the heap after the call, result: the arrow returned]
clone_shooting(h, a) ==
    [heap   |-> alloc(h, Arrow(TRUE, h[a].position, h[a].angle, h[a].color)),
     result |-> NewId(h)]

\* Variant of arrow_update that moves the arrow whether it is shooting or not.
arrow_update_always(h, a, dt) ==
    [h EXCEPT ![a].position =
          add(h[a].position, times(to_unit_point(h[a].angle), dt))]

\* Arrow.update
arrow_update(h, a, dt) ==
    IF h[a].shooting
    THEN [h EXCEPT ![a].position =
                add(h[a].position, times(to_unit_point(h[a].angle), dt))]
    ELSE h

\* Bow.__init__: a bow is the SpriteGroup holding its one nocked arrow; the
\* model names a bow by that arrow.
Bow(h, position, color) == alloc(h, Arrow(FALSE, position, up, color))

\* Variant of turn that also accepts a horizontal aim (y <= 0).
turn_clamped(h, b, angle) ==
    LET new_angle == angle_add(get_angle(h, b), angle) IN
    IF unit_y_sign(new_angle) <= 0 THEN set_angle(h, b, new_angle) ELSE h

\* Variant of turn that points the bow up when it rejects a turn.
turn_reset(h, b, angle) ==
    LET new_angle == angle_add(get_angle(h, b), angle) IN
    IF unit_y_sign(new_angle) < 0 THEN set_angle(h, b, new_angle) ELSE set_angle(h, b, up)

\* Bow.turn
turn(h, b, angle) ==
    LET new_angle == angle_add(get_angle(h, b), angle) IN
    IF unit_y_sign(new_angle) < 0 THEN set_angle(h, b, new_angle) ELSE h

\* Bow.shoot
shoot(h, b) == clone_shooting(h, b)

(***************************************************************************)
(* sprites.py: SpriteGroup.  The model keeps the ordered list "sprites" of *)
(* a group as a sequence of object identities.                             *)
(***************************************************************************)
\* SpriteGroup.add: append at the end.
sg_add(sprites, sprite) == Append(sprites, sprite)

\* SpriteGroup.get_sprites
get_sprites(sprites) == sprites

\* SpriteGroup.remove is called by agdpp.py but is not defined in
\* sprites.py.  From the specification (4.2): it removes the entity by
\* identity, and a removal made while a loop iterates the group does not
\* disturb that loop.  The loops of the model therefore run over the
\* sequence they started with.
RECURSIVE sg_remove(_, _)
sg_remove(sprites, sprite) ==
    IF sprites = <<>> THEN <<>>
    ELSE IF Head(sprites) = sprite THEN Tail(sprites)
    ELSE <<Head(sprites)>> \o sg_remove(Tail(sprites), sprite)

\* The objects of heap h that ids names: what is left of the heap when the
\* objects nothing refers to any more are garbage collected.
collect(h, ids) == [i \in (DOMAIN h) \cap ids |-> h[i]]

Range(seq) == {seq[i] : i \in 1..Len(seq)}

(***************************************************************************)
(* agdpp.py: Balloon and Balloons                                          *)
(***************************************************************************)
\* The screen of the game: BalloonShooter.resolution.
ScreenWidth == 1280

ScreenHeight == 720

screen_area == from_size(ScreenWidth, ScreenHeight)

\* Balloon.__init__: radius defaults to 40; the speed 0.1 is in balloon_update.
BalloonRadius == 40

Balloon(position) == [position |-> position, radius |-> BalloonRadius]

\* Balloon.is_outside_of
balloon_is_outside_of(h, b, area) ==
    ~contains(inflate(area, h[b].radius * 2), h[b].position)

\* Point.distance_to, squared: sqrt((dx)^2 + (dy)^2) <= r is decided on the
\* integers as dx^2 + dy^2 <= r^2.
distance_sq(p, q) == (q.x - p.x) * (q.x - p.x) + (q.y - p.y) * (q.y - p.y)

\* Variant of Balloon.contains that leaves the rim out.
balloon_contains_inside_rim(h, b, position) ==
    distance_sq(h[b].position, position) < h[b].radius * h[b].radius

\* Balloon.contains
balloon_contains(h, b, position) ==
    distance_sq(h[b].position, position) <= h[b].radius * h[b].radius

\* Balloon.update: position.move(dy = dt * 0.1); dt is a multiple of 10.
balloon_update(h, b, dt) ==
    [h EXCEPT ![b].position = move(@, 0, dt \div 10)]

\* Balloons.__init__: [heap, group] with one Balloon per position.
RECURSIVE balloons_init(_, _, _, _)
balloons_init(h, positions, area, number_of_balloons) ==
    IF positions = <<>>
    THEN [heap  |-> h,
          group |-> [sprites |-> <<>>, screen_area |-> area,
                     number_of_balloons |-> number_of_balloons]]
    ELSE LET id   == NewId(h)
             rest == balloons_init(alloc(h, Balloon(Head(positions))),
                                   Tail(positions), area, number_of_balloons)
         IN [heap  |-> rest.heap,
             group |-> [rest.group EXCEPT !.sprites = <<id>> \o @]]

\* SpriteGroup.update(self, dt) of a Balloons: every balloon moves.
RECURSIVE balloons_move(_, _, _)
balloons_move(h, sprites, dt) ==
    IF sprites = <<>> THEN h
    ELSE balloons_move(balloon_update(h, Head(sprites), dt), Tail(sprites), dt)

\* "for balloon in self.get_sprites(): if balloon.is_outside_of(...):
\* self.remove(balloon)": todo is what the loop has still to visit.
RECURSIVE balloons_cull(_, _, _, _)
balloons_cull(h, sprites, todo, area) ==
    IF todo = <<>> THEN sprites
    ELSE balloons_cull(h,
                       IF balloon_is_outside_of(h, Head(todo), area)
                       THEN sg_remove(sprites, Head(todo)) ELSE sprites,
                       Tail(todo), area)

\* Balloons.spawn_new with the value x that get_random_x() drew.
spawn_new(h, g, x) ==
    [heap  |-> alloc(h, Balloon([g.screen_area.topleft EXCEPT !.x = x])),
     group |-> [g EXCEPT !.sprites = sg_add(@, NewId(h))]]

\* Variant of balloons_fill that spawns at most one balloon (if, not while).
balloons_fill_once(h, g, xs) ==
    IF Len(get_sprites(g.sprites)) < g.number_of_balloons
    THEN spawn_new(h, g, Head(xs))
    ELSE [heap |-> h, group |-> g]

\* "while len(self.get_sprites()) < self.number_of_balloons: self.spawn_new()"
\* xs are the values that the calls of get_random_x() draw, in order.
RECURSIVE balloons_fill(_, _, _)
balloons_fill(h, g, xs) ==
    IF Len(get_sprites(g.sprites)) < g.number_of_balloons
    THEN LET r == spawn_new(h, g, Head(xs)) IN balloons_fill(r.heap, r.group, Tail(xs))
    ELSE [heap |-> h, group |-> g]

\* Variant of balloons_move_and_cull that removes before it moves.
balloons_cull_then_move(h, g, dt) ==
    LET g1 == [g EXCEPT !.sprites =
                  balloons_cull(h, g.sprites, get_sprites(g.sprites), g.screen_area)]
    IN [heap  |-> balloons_move(h, g1.sprites, dt), group |-> g1]

\* Balloons.update, up to the spawning: move, then remove what left the area.
balloons_move_and_cull(h, g, dt) ==
    LET h1 == balloons_move(h, g.sprites, dt) IN
    [heap  |-> h1,
     group |-> [g EXCEPT !.sprites =
                    balloons_cull(h1, g.sprites, get_sprites(g.sprites), g.screen_area)]]

\* Balloons.update
balloons_update(h, g, dt, xs) ==
    LET r == balloons_move_and_cull(h, g, dt) IN balloons_fill(r.heap, r.group, xs)

\* Python's None; NoSprite is the None of a reference to a sprite: no object
\* has this identity.
None == "None"

NoSprite == -1

\* Variant of first_hit that takes the first balloon without the hit test.
first_hit_any(h, sprites, position) ==
    IF sprites = <<>> THEN NoSprite ELSE Head(sprites)

\* Variant of first_hit that goes on after a hit and returns the last
\* balloon that contains the position.
RECURSIVE first_hit_last(_, _, _)
first_hit_last(h, sprites, position) ==
    IF sprites = <<>> THEN NoSprite
    ELSE LET later == first_hit_last(h, Tail(sprites), position)
         IN IF later # NoSprite THEN later
            ELSE IF balloon_contains(h, Head(sprites), position) THEN Head(sprites)
            ELSE NoSprite

\* Balloons.get_balloon_hit_by_arrow: the first balloon, in the order of the
\* group, that contains the arrow's position; None when there is none.
RECURSIVE first_hit(_, _, _)
first_hit(h, sprites, position) ==
    IF sprites = <<>> THEN NoSprite
    ELSE IF balloon_contains(h, Head(sprites), position) THEN Head(sprites)
    ELSE first_hit(h, Tail(sprites), position)

get_balloon_hit_by_arrow(h, g, arrow) ==
    first_hit(h, get_sprites(g.sprites), get_position(h, arrow))

(***************************************************************************)
(* What random.randint may draw.  get_random_x() of the deflated screen    *)
(* draws from left+50 .. right-50; the model follows the draws of SpawnXs, *)
(* and, for the draws of one call, the sequences of Draws.                 *)
(***************************************************************************)
SpawnXs == <<640, 100>>

\* The sequences of n draws the model follows: the k-th draw repeated, or
\* the draws taken in turn starting at the k-th.
Draws(n) ==
    {[i \in 1..n |-> SpawnXs[k]] : k \in 1..Len(SpawnXs)}
    \cup {[i \in 1..n |-> SpawnXs[((i + k) % Len(SpawnXs)) + 1]] : k \in 1..Len(SpawnXs)}

\* How many balloons Balloons.update(dt) spawns on group g.
spawn_count(h, g, dt) ==
    LET left == Len(balloons_move_and_cull(h, g, dt).group.sprites) IN
    IF left < g.number_of_balloons THEN g.number_of_balloons - left ELSE 0

\* The values of dt (milliseconds) the model feeds to update.
DtValues == {0, 1250}

(***************************************************************************)
(* gameloop.py: events                                                     *)
(***************************************************************************)
KEY_SPACE == "K_SPACE"

KEY_LEFT == "K_LEFT"

KEY_RIGHT == "K_RIGHT"

XBOX_A == 0

XBOX_START == 7

create_event_user_closed_window == [type |-> "QUIT"]

create_event_keydown(key) == [type |-> "KEYDOWN", key |-> key]

create_event_keyup(key) == [type |-> "KEYUP", key |-> key]

create_event_joystick_down(button, instance_id) ==
    [type |-> "JOYBUTTONDOWN", button |-> button, instance_id |-> instance_id]

\* value is in thousandths: 500 is the axis value 0.5
create_event_joystick_motion(axis, value, instance_id) ==
    [type |-> "JOYAXISMOTION", axis |-> axis, value |-> value,
     instance_id |-> instance_id]

is_user_closed_window(e) == e.type = "QUIT"

is_keydown(e, key) == e.type = "KEYDOWN" /\ e.key = key

is_keyup(e, key) == e.type = "KEYUP" /\ e.key = key

is_joystick_down(e, button) == e.type = "JOYBUTTONDOWN" /\ e.button = button

is_joystick_motion(e) == e.type = "JOYAXISMOTION"

get_axis(e) == e.axis

get_value(e) == e.value

get_instance_id(e) == e.instance_id

(***************************************************************************)
(* agdpp.py: InputHandler.  A dict is the sequence of its [key, value]     *)
(* items in insertion order, which is the order Python iterates it in.     *)
(***************************************************************************)
dict_has(d, k) == \E i \in 1..Len(d) : d[i].key = k

dict_set(d, k, v) ==
    IF dict_has(d, k)
    THEN [i \in 1..Len(d) |-> IF d[i].key = k THEN [key |-> k, value |-> v] ELSE d[i]]
    ELSE Append(d, [key |-> k, value |-> v])

\* InputHandler.__init__.  shots and turn_angles are set by the first update;
\* the scenes read them only after that.
InputHandler ==
    [shots_triggered |-> <<>>, turn_factors |-> <<>>,
     shots |-> <<>>, turn_angles |-> <<>>]

\* InputHandler.turn_speed = 1/2500
TurnSpeedInverse == 2500

\* Variant of joystick_id that leaves the instance id out.
joystick_id_shared(e) == "joystick"

\* InputHandler.joystick_id
joystick_id(e) == "joystick" \o ToString(get_instance_id(e))

\* Variant of ih_event without the two key-up branches: a released turn
\* key keeps turning.
ih_event_sticky(ih, e) ==
    IF is_keydown(e, KEY_SPACE)
    THEN [ih EXCEPT !.shots_triggered = Append(@, "keyboard")]
    ELSE IF is_joystick_down(e, XBOX_A)
    THEN [ih EXCEPT !.shots_triggered = Append(@, joystick_id(e))]
    ELSE IF is_keydown(e, KEY_LEFT)
    THEN [ih EXCEPT !.turn_factors = dict_set(@, "keyboard", -1000)]
    ELSE IF is_keydown(e, KEY_RIGHT)
    THEN [ih EXCEPT !.turn_factors = dict_set(@, "keyboard", 1000)]
    ELSE IF is_joystick_motion(e) /\ get_axis(e) = 0
    THEN IF Abs(get_value(e)) > 10
         THEN [ih EXCEPT !.turn_factors = dict_set(@, joystick_id(e), get_value(e))]
         ELSE [ih EXCEPT !.turn_factors = dict_set(@, joystick_id(e), 0)]
    ELSE ih

\* Variant of ih_event whose dead zone ends before 0.01: a motion of axis 0
\* by exactly 0.01 turns.
ih_event_narrow_dead_zone(ih, e) ==
    IF is_keydown(e, KEY_SPACE)
    THEN [ih EXCEPT !.shots_triggered = Append(@, "keyboard")]
    ELSE IF is_joystick_down(e, XBOX_A)
    THEN [ih EXCEPT !.shots_triggered = Append(@, joystick_id(e))]
    ELSE IF is_keydown(e, KEY_LEFT)
    THEN [ih EXCEPT !.turn_factors = dict_set(@, "keyboard", -1000)]
    ELSE IF is_keyup(e, KEY_LEFT)
    THEN [ih EXCEPT !.turn_factors = dict_set(@, "keyboard", 0)]
    ELSE IF is_keydown(e, KEY_RIGHT)
    THEN [ih EXCEPT !.turn_factors = dict_set(@, "keyboard", 1000)]
    ELSE IF is_keyup(e, KEY_RIGHT)
    THEN [ih EXCEPT !.turn_factors = dict_set(@, "keyboard", 0)]
    ELSE IF is_joystick_motion(e) /\ get_axis(e) = 0
    THEN IF Abs(get_value(e)) >= 10
         THEN [ih EXCEPT !.turn_factors = dict_set(@, joystick_id(e), get_value(e))]
         ELSE [ih EXCEPT !.turn_factors = dict_set(@, joystick_id(e), 0)]
    ELSE ih

\* InputHandler.event.  Turn factors are in thousandths, as axis values are.
ih_event(ih, e) ==
    IF is_keydown(e, KEY_SPACE)
    THEN [ih EXCEPT !.shots_triggered = Append(@, "keyboard")]
    ELSE IF is_joystick_down(e, XBOX_A)
    THEN [ih EXCEPT !.shots_triggered = Append(@, joystick_id(e))]
    ELSE IF is_keydown(e, KEY_LEFT)
    THEN [ih EXCEPT !.turn_factors = dict_set(@, "keyboard", -1000)]
    ELSE IF is_keyup(e, KEY_LEFT)
    THEN [ih EXCEPT !.turn_factors = dict_set(@, "keyboard", 0)]
    ELSE IF is_keydown(e, KEY_RIGHT)
    THEN [ih EXCEPT !.turn_factors = dict_set(@, "keyboard", 1000)]
    ELSE IF is_keyup(e, KEY_RIGHT)
    THEN [ih EXCEPT !.turn_factors = dict_set(@, "keyboard", 0)]
    ELSE IF is_joystick_motion(e) /\ get_axis(e) = 0
    THEN IF Abs(get_value(e)) > 10
         THEN [ih EXCEPT !.turn_factors = dict_set(@, joystick_id(e), get_value(e))]
         ELSE [ih EXCEPT !.turn_factors = dict_set(@, joystick_id(e), 0)]
    ELSE ih

\* Variant of ih_update that does not start a new shots_triggered list.
ih_update_keep(ih, dt) ==
    [ih EXCEPT
        !.shots = ih.shots_triggered,
        !.turn_angles =
            [i \in 1..Len(ih.turn_factors) |->
                [key   |-> ih.turn_factors[i].key,
                 value |-> fraction_of_whole(ih.turn_factors[i].value * dt,
                                             1000 * TurnSpeedInverse)]]]

\* InputHandler.update
ih_update(ih, dt) ==
    [ih EXCEPT
        !.shots = ih.shots_triggered,
        !.shots_triggered = <<>>,
        !.turn_angles =
            [i \in 1..Len(ih.turn_factors) |->
                [key   |-> ih.turn_factors[i].key,
                 value |-> fraction_of_whole(ih.turn_factors[i].value * dt,
                                             1000 * TurnSpeedInverse)]]]

\* InputHandler.get_shots / get_turn_angles
get_shots(ih) == ih.shots

get_turn_angles(ih) == ih.turn_angles

(***************************************************************************)
(* agdpp.py: GameplayScene.  A scene is the record sc of its fields        *)
(* [balloons, bows, flying_arrows, score, input_handler]; its sprites are, *)
(* in this order, the balloons, the bows, the flying arrows and the score. *)
(***************************************************************************)
\* Arrow.is_outside_of
arrow_is_outside_of(h, a, area) == ~contains(inflate(area, 20), h[a].position)

\* Arrow.hits_baloon
hits_baloon(h, a, balloon) == balloon_contains(h, balloon, h[a].position)

\* ColorGenerator: the color of the k-th bow (k = 1, 2, ...).
ColorGenerator == <<"blue", "green", "yellow">>

get_next(k) == IF k <= Len(ColorGenerator) THEN ColorGenerator[k] ELSE "black"

\* Rectangle.bottomleft and Rectangle.width are used by init_bows but are not
\* defined in geometry.py; the doctest of the bow layout fixes them.
bottomleft(r) == Point(r.topleft.x, r.bottomright.y)

width(r) == r.bottomright.x - r.topleft.x

\* GameplayScene.init_bows: [heap, bows].  The k-th bow of n players is at
\* bottomleft.move(dy=-120) moved k times by width / (n + 1).
RECURSIVE init_bows_from(_, _, _, _, _)
init_bows_from(h, player_list, k, bow_position, bow_increment) ==
    IF k > Len(player_list) THEN [heap |-> h, bows |-> <<>>]
    ELSE LET position == move(bow_position, bow_increment, 0)
             id       == NewId(h)
             rest     == init_bows_from(Bow(h, position, get_next(k)),
                                        player_list, k + 1, position, bow_increment)
         IN [heap |-> rest.heap,
             bows |-> <<[player |-> player_list[k], bow |-> id]>> \o rest.bows]

\* Variant of init_bows that spaces the bows by width / n.
init_bows_by_count(h, player_list, area) ==
    init_bows_from(h, player_list, 1, move(bottomleft(area), 0, -120),
                   width(area) \div Len(player_list))

init_bows(h, player_list, area) ==
    init_bows_from(h, player_list, 1, move(bottomleft(area), 0, -120),
                   width(area) \div (Len(player_list) + 1))

\* "Arrow(position=position) for position in arrows": the arrows handed to
\* the constructor get the defaults of Arrow.__init__ (shooting=False).
RECURSIVE init_arrows(_, _)
init_arrows(h, positions) ==
    IF positions = <<>> THEN [heap |-> h, sprites |-> <<>>]
    ELSE LET id   == NewId(h)
             rest == init_arrows(alloc(h, Arrow(FALSE, Head(positions), up, "blue")),
                                 Tail(positions))
         IN [heap |-> rest.heap, sprites |-> <<id>> \o rest.sprites]

\* GameplayScene.__init__: [heap, scene]
GameplayScene(h, area, given_balloons, given_arrows, player_list) ==
    LET b == balloons_init(h, given_balloons, area, 3 * Len(player_list))
        w == init_bows(b.heap, player_list, area)
        a == init_arrows(w.heap, given_arrows)
    IN [heap  |-> a.heap,
        scene |-> [balloons      |-> b.group,
                   bows          |-> w.bows,
                   flying_arrows |-> a.sprites,
                   score         |-> 0,
                   input_handler |-> InputHandler]]

\* GameplayScene.bow_for_player: the bow of the player, else the bow the loop
\* ended on, which is the last one.
RECURSIVE bow_for_player_from(_, _, _)
bow_for_player_from(bws, k, player) ==
    IF bws[k].player = player \/ k = Len(bws) THEN bws[k].bow
    ELSE bow_for_player_from(bws, k + 1, player)

\* Variant of bow_for_player that falls back to the first bow.
bow_for_player_or_first(bws, player) ==
    IF \E k \in 1..Len(bws) : bws[k].player = player
    THEN bow_for_player_from(bws, 1, player)
    ELSE bws[1].bow

bow_for_player(bws, player) == bow_for_player_from(bws, 1, player)

\* "for player in self.input_handler.get_shots():
\*      self.flying_arrows.add(self.bow_for_player(player).shoot())"
RECURSIVE shoot_all(_, _, _, _)
shoot_all(h, bws, flying, shots) ==
    IF shots = <<>> THEN [heap |-> h, flying_arrows |-> flying]
    ELSE LET r == shoot(h, bow_for_player(bws, Head(shots)))
         IN shoot_all(r.heap, bws, sg_add(flying, r.result), Tail(shots))

\* "for player, turn_angle in self.input_handler.get_turn_angles().items():
\*      self.bow_for_player(player).turn(turn_angle)"
RECURSIVE turn_all(_, _, _)
turn_all(h, bws, turn_angles) ==
    IF turn_angles = <<>> THEN h
    ELSE turn_all(turn(h, bow_for_player(bws, Head(turn_angles).key),
                       Head(turn_angles).value),
                  bws, Tail(turn_angles))

\* SpriteGroup.update of a group of arrows (a bow, the flying arrows).
RECURSIVE arrows_update(_, _, _)
arrows_update(h, sprites, dt) ==
    IF sprites = <<>> THEN h
    ELSE arrows_update(arrow_update(h, Head(sprites), dt), Tail(sprites), dt)

\* SpriteGroup.update(self, dt) of the scene: the balloons (xs are the draws
\* of the balloons it spawns), then the bows, then the flying arrows, then
\* the score (Score.update does nothing).  [heap, scene]
scene_sprites_update(h, sc, dt, xs) ==
    LET b  == balloons_update(h, sc.balloons, dt, xs)
        h2 == arrows_update(b.heap, [k \in 1..Len(sc.bows) |-> sc.bows[k].bow], dt)
        h3 == arrows_update(h2, sc.flying_arrows, dt)
    IN [heap |-> h3, scene |-> [sc EXCEPT !.balloons = b.group]]

\* Variant of resolve that adds 2 to the score for a hit.
RECURSIVE resolve_double_score(_, _, _, _)
resolve_double_score(h, sc, todo, area) ==
    IF todo = <<>> THEN sc
    ELSE LET arrow       == Head(todo)
             hit_balloon == get_balloon_hit_by_arrow(h, sc.balloons, arrow)
             sc1 == IF hit_balloon # NoSprite \/ arrow_is_outside_of(h, arrow, area)
                    THEN [sc EXCEPT !.flying_arrows = sg_remove(@, arrow)]
                    ELSE sc
             sc2 == IF hit_balloon # NoSprite
                    THEN [sc1 EXCEPT !.balloons.sprites = sg_remove(@, hit_balloon),
                                     !.score = @ + 2]
                    ELSE sc1
         IN resolve_double_score(h, sc2, Tail(todo), area)

\* Variant of resolve that removes an arrow only when it hit a balloon.
RECURSIVE resolve_hits_only(_, _, _, _)
resolve_hits_only(h, sc, todo, area) ==
    IF todo = <<>> THEN sc
    ELSE LET arrow       == Head(todo)
             hit_balloon == get_balloon_hit_by_arrow(h, sc.balloons, arrow)
             sc2 == IF hit_balloon # NoSprite
                    THEN [sc EXCEPT !.flying_arrows = sg_remove(@, arrow),
                                    !.balloons.sprites = sg_remove(@, hit_balloon),
                                    !.score = @ + 1]
                    ELSE sc
         IN resolve_hits_only(h, sc2, Tail(todo), area)

\* Variant of resolve that visits the flying arrows by index in the list as
\* it is while the loop runs: a removal shifts the arrows behind it, and the
\* arrow after a removed one is not visited.
RECURSIVE resolve_live_from(_, _, _, _)
resolve_live_from(h, sc, i, area) ==
    IF i > Len(sc.flying_arrows) THEN sc
    ELSE LET arrow       == sc.flying_arrows[i]
             hit_balloon == get_balloon_hit_by_arrow(h, sc.balloons, arrow)
             sc1 == IF hit_balloon # NoSprite \/ arrow_is_outside_of(h, arrow, area)
                    THEN [sc EXCEPT !.flying_arrows = sg_remove(@, arrow)]
                    ELSE sc
             sc2 == IF hit_balloon # NoSprite
                    THEN [sc1 EXCEPT !.balloons.sprites = sg_remove(@, hit_balloon),
                                     !.score = @ + 1]
                    ELSE sc1
         IN resolve_live_from(h, sc2, i + 1, area)

resolve_live(h, sc, todo, area) == resolve_live_from(h, sc, 1, area)

\* "for arrow in self.flying_arrows.get_sprites(): ..." of
\* GameplayScene.update: todo is what the loop has still to visit.
RECURSIVE resolve(_, _, _, _)
resolve(h, sc, todo, area) ==
    IF todo = <<>> THEN sc
    ELSE LET arrow       == Head(todo)
             hit_balloon == get_balloon_hit_by_arrow(h, sc.balloons, arrow)
             sc1 == IF hit_balloon # NoSprite \/ arrow_is_outside_of(h, arrow, area)
                    THEN [sc EXCEPT !.flying_arrows = sg_remove(@, arrow)]
                    ELSE sc
             sc2 == IF hit_balloon # NoSprite
                    THEN [sc1 EXCEPT !.balloons.sprites = sg_remove(@, hit_balloon),
                                     !.score = @ + 1]
                    ELSE sc1
         IN resolve(h, sc2, Tail(todo), area)

\* Variant of gameplay_advance that turns the bows before it fires the shots.
gameplay_advance_turn_first(h, sc, dt, xs) ==
    LET ih == ih_update(sc.input_handler, dt)
        h2 == turn_all(h, sc.bows, get_turn_angles(ih))
        s  == shoot_all(h2, sc.bows, sc.flying_arrows, get_shots(ih))
    IN scene_sprites_update(s.heap,
                            [sc EXCEPT !.input_handler = ih,
                                       !.flying_arrows = s.flying_arrows],
                            dt, xs)

\* GameplayScene.update up to and including SpriteGroup.update: the input
\* handler is updated, the shots are fired, the bows are turned and every
\* sprite is updated.  [heap, scene]
gameplay_advance(h, sc, dt, xs) ==
    LET ih == ih_update(sc.input_handler, dt)
        s  == shoot_all(h, sc.bows, sc.flying_arrows, get_shots(ih))
        h2 == turn_all(s.heap, sc.bows, get_turn_angles(ih))
    IN scene_sprites_update(h2,
                            [sc EXCEPT !.input_handler = ih,
                                       !.flying_arrows = s.flying_arrows],
                            dt, xs)

\* GameplayScene.update.  [heap, scene, mid: the heap and scene the loop over
\* the flying arrows started from]
gameplay_update(h, sc, dt, xs) ==
    LET m == gameplay_advance(h, sc, dt, xs)
    IN [heap  |-> m.heap,
        scene |-> resolve(m.heap, m.scene, get_sprites(m.scene.flying_arrows),
                          sc.balloons.screen_area),
        mid   |-> m]

\* The objects a scene refers to.
scene_objects(sc) ==
    Range(sc.balloons.sprites) \cup Range(sc.flying_arrows)
        \cup {sc.bows[k].bow : k \in 1..Len(sc.bows)}

(***************************************************************************)
(* agdpp.py: StartScene.  A start scene is the record of its fields        *)
(* [balloons, input_handler, pending_players, players] (and no bows, no    *)
(* flying arrows).  players is None or PendingList, the list object that   *)
(* pending_players names: "self.players = self.pending_players" binds a    *)
(* second name to the same list.                                           *)
(***************************************************************************)
PendingList == "pending_players"

\* How many positions StartScene.__init__ draws: range(15).
StartBalloons == 15

\* StartScene.__init__ with the positions it drew: [heap, scene]
StartScene(h, area, positions) ==
    LET b == balloons_init(h, positions, area, Len(positions))
    IN [heap  |-> b.heap,
        scene |-> [balloons        |-> b.group,
                   bows            |-> <<>>,
                   flying_arrows   |-> <<>>,
                   score           |-> 0,
                   input_handler   |-> InputHandler,
                   pending_players |-> <<>>,
                   players         |-> None]]

\* Variant of register_shots that promotes on a source's first shot.
RECURSIVE register_shots_first(_, _, _)
register_shots_first(pending, player_ref, shots) ==
    IF shots = <<>> THEN [pending_players |-> pending, players |-> player_ref]
    ELSE IF Head(shots) \in Range(pending)
    THEN register_shots_first(pending, PendingList, Tail(shots))
    ELSE register_shots_first(Append(pending, Head(shots)), PendingList, Tail(shots))

\* Variant of register_shots that leaves the loop at the promoting shot.
register_shots_until_promoted(pending, player_ref, shots) ==
    LET promoting == {i \in 1..Len(shots) : shots[i] \in Range(pending)}
        first     == CHOOSE i \in promoting : \A j \in promoting : i <= j
    IN IF promoting = {}
       THEN [pending_players |-> pending \o shots, players |-> player_ref]
       ELSE [pending_players |-> pending \o SubSeq(shots, 1, first - 1),
             players |-> PendingList]

\* "for player in self.input_handler.get_shots(): ..." of StartScene.update
RECURSIVE register_shots(_, _, _)
register_shots(pending, player_ref, shots) ==
    IF shots = <<>> THEN [pending_players |-> pending, players |-> player_ref]
    ELSE IF Head(shots) \in Range(pending)
    THEN register_shots(pending, PendingList, Tail(shots))
    ELSE register_shots(Append(pending, Head(shots)), player_ref, Tail(shots))

\* StartScene.update: SpriteGroup.update (the balloons), the input handler,
\* then the shots.  [heap, scene]
start_update(h, st, dt, xs) ==
    LET b  == balloons_update(h, st.balloons, dt, xs)
        ih == ih_update(st.input_handler, dt)
        r  == register_shots(st.pending_players, st.players, get_shots(ih))
    IN [heap  |-> b.heap,
        scene |-> [st EXCEPT !.balloons        = b.group,
                             !.input_handler   = ih,
                             !.pending_players = r.pending_players,
                             !.players         = r.players]]

\* StartScene.get_players
get_players(st) == IF st.players = None THEN None ELSE st.pending_players

(***************************************************************************)
(* agdpp.py: GameScene.  A game is [active_scene, scene]: the class of the *)
(* active scene and the scene itself.                                      *)
(***************************************************************************)
\* GameScene.__init__ with the positions the start scene drew: [heap, game]
GameScene(h, area, positions) ==
    LET st == StartScene(h, area, positions)
    IN [heap |-> st.heap,
        game |-> [active_scene |-> "StartScene", scene |-> st.scene]]

\* GameScene.event raises ExitGameLoop on this event, and hands any other
\* event to the active scene.
raises_exit(e) == is_user_closed_window(e)

\* Variant of game_update that never leaves the start scene.
game_update_stay(h, game, dt, xs, area) ==
    LET r == start_update(h, game.scene, dt, xs)
    IN [heap |-> r.heap, game |-> [game EXCEPT !.scene = r.scene], start |-> r.scene]

\* Variant of game_update that hands the input handler of the start scene
\* on to the gameplay scene.
game_update_carry_input(h, game, dt, xs, area) ==
    LET r == start_update(h, game.scene, dt, xs)
    IN IF r.scene.players # None /\ get_players(r.scene) # <<>>
       THEN LET g == GameplayScene(r.heap, area, <<>>, <<>>, get_players(r.scene))
            IN [heap  |-> g.heap,
                game  |-> [active_scene |-> "GameplayScene",
                           scene |-> [g.scene EXCEPT
                                         !.input_handler = r.scene.input_handler]
                                     @@ [pending_players |-> <<>>, players |-> None]],
                start |-> r.scene]
       ELSE [heap |-> r.heap, game |-> [game EXCEPT !.scene = r.scene],
             start |-> r.scene]

\* GameScene.update of a game whose active scene is a StartScene.
\* [heap, game, start: the start scene after its update]
game_update(h, game, dt, xs, area) ==
    LET r == start_update(h, game.scene, dt, xs)
    IN IF r.scene.players # None /\ get_players(r.scene) # <<>>
       THEN LET g == GameplayScene(r.heap, area, <<>>, <<>>, get_players(r.scene))
            IN [heap  |-> g.heap,
                game  |-> [active_scene |-> "GameplayScene",
                           scene |-> g.scene @@ [pending_players |-> <<>>,
                                                 players |-> None]],
                start |-> r.scene]
       ELSE [heap |-> r.heap, game |-> [game EXCEPT !.scene = r.scene],
             start |-> r.scene]

(***************************************************************************)
(* sprites.py: SpriteGroup as Python objects.  A group object has the      *)
(* field sprites, a reference to a list object; get_sprites() returns that *)
(* reference, so the caller and the group name one list.  Objects live in  *)
(* a heap o: identity -> object, an object being a list [class, items], a  *)
(* group [class, sprites], a TestSprite [class] or a BalloonParticle       *)
(* [class, position, radius].  A call of update or draw that reaches a     *)
(* sprite is the record [sprite, method, args].                            *)
(***************************************************************************)
List(items) == [class |-> "list", items |-> items]

\* The TestSprite of the SpriteGroup doctest: update and draw only print.
TestSprite == [class |-> "TestSprite"]

\* BalloonParticle.__init__
BalloonParticle(position, radius) ==
    [class |-> "BalloonParticle", position |-> position, radius |-> radius]

\* BalloonParticle.get_radius / is_alive
get_radius(o, particle) == o[particle].radius

is_alive(o, particle) == get_radius(o, particle) > 3

\* SpriteGroup.__init__ / ParticleEffects.__init__ without sprites:
\* "self.sprites = []".  [heap, result: the group]
group_init(o, class) ==
    LET o1 == alloc(o, List(<<>>))
    IN [heap   |-> alloc(o1, [class |-> class, sprites |-> NewId(o)]),
        result |-> NewId(o1)]

\* Variant of group_add that inserts the sprite at the front of the list.
group_add_front(o, g, sprite) ==
    [heap   |-> [o EXCEPT ![o[g].sprites].items = <<sprite>> \o @],
     result |-> sprite]

\* SpriteGroup.add: "self.sprites.append(sprite); return sprite".
group_add(o, g, sprite) ==
    [heap   |-> [o EXCEPT ![o[g].sprites].items = sg_add(@, sprite)],
     result |-> sprite]

\* SpriteGroup.get_sprites: "return self.sprites", the list object itself.
group_get_sprites(o, g) == o[g].sprites

\* SpriteGroup.remove is not in sprites.py.  From the specification (4.2):
\* it removes by identity and must not disturb a loop that iterates the
\* group.  As get_sprites() hands out the list object itself, such a remove
\* leaves that object alone and binds self.sprites to a new list.
group_remove(o, g, sprite) ==
    [alloc(o, List(sg_remove(o[o[g].sprites].items, sprite)))
        EXCEPT ![g].sprites = NewId(o)]

\* SpriteGroup.update: "for sprite in self.sprites: sprite.update(dt)", for
\* the list object l and the iterator's index i; and update of one sprite:
\* TestSprite.update, BalloonParticle.update (radius -= 0.1 * dt, dt being
\* a multiple of 10) or, for a group, SpriteGroup.update.  [heap, calls]
RECURSIVE group_update_from(_, _, _, _)
RECURSIVE sprite_update(_, _, _)
sprite_update(o, sprite, dt) ==
    LET call == [sprite |-> sprite, method |-> "update", args |-> <<dt>>] IN
    IF o[sprite].class = "TestSprite"
    THEN [heap |-> o, calls |-> <<call>>]
    ELSE IF o[sprite].class = "BalloonParticle"
    THEN [heap  |-> [o EXCEPT ![sprite].radius = @ - (dt \div 10)],
          calls |-> <<call>>]
    ELSE LET r == group_update_from(o, o[sprite].sprites, 1, dt)
         IN [heap |-> r.heap, calls |-> <<call>> \o r.calls]

group_update_from(o, l, i, dt) ==
    IF i > Len(o[l].items) THEN [heap |-> o, calls |-> <<>>]
    ELSE LET r    == sprite_update(o, o[l].items[i], dt)
             rest == group_update_from(r.heap, l, i + 1, dt)
         IN [heap |-> rest.heap, calls |-> r.calls \o rest.calls]

group_update(o, g, dt) == group_update_from(o, o[g].sprites, 1, dt)

\* SpriteGroup.draw: "for sprite in self.sprites: sprite.draw(loop)".
\* Drawing changes no object: the calls.
RECURSIVE group_draw_from(_, _, _, _)
RECURSIVE sprite_draw(_, _, _)
sprite_draw(o, sprite, loop_arg) ==
    LET call == [sprite |-> sprite, method |-> "draw", args |-> <<loop_arg>>] IN
    IF o[sprite].class \in {"TestSprite", "BalloonParticle"}
    THEN <<call>>
    ELSE <<call>> \o group_draw_from(o, o[sprite].sprites, 1, loop_arg)

group_draw_from(o, l, i, loop_arg) ==
    IF i > Len(o[l].items) THEN <<>>
    ELSE sprite_draw(o, o[l].items[i], loop_arg)
            \o group_draw_from(o, l, i + 1, loop_arg)

group_draw(o, g, loop_arg) == group_draw_from(o, o[g].sprites, 1, loop_arg)

\* Variant of remove_dead_from that asks the group for its sprites again at
\* every step: "while i < len(self.get_sprites()): ...; i += 1".
RECURSIVE remove_dead_live(_, _, _, _)
remove_dead_live(o, g, l, i) ==
    IF i > Len(o[group_get_sprites(o, g)].items) THEN [heap |-> o, visited |-> <<>>]
    ELSE LET particle == o[group_get_sprites(o, g)].items[i]
             o1   == IF ~is_alive(o, particle) THEN group_remove(o, g, particle)
                     ELSE o
             rest == remove_dead_live(o1, g, l, i + 1)
         IN [heap |-> rest.heap, visited |-> <<particle>> \o rest.visited]

\* "for particle in self.get_sprites(): if not particle.is_alive():
\* self.remove(particle)" of ParticleEffects.update, for the list object l
\* that get_sprites() returned and the iterator's index i.
\* [heap, visited: the particles the loop body ran for, in order]
RECURSIVE remove_dead_from(_, _, _, _)
remove_dead_from(o, g, l, i) ==
    IF i > Len(o[l].items) THEN [heap |-> o, visited |-> <<>>]
    ELSE LET particle == o[l].items[i]
             o1   == IF ~is_alive(o, particle) THEN group_remove(o, g, particle)
                     ELSE o
             rest == remove_dead_from(o1, g, l, i + 1)
         IN [heap |-> rest.heap, visited |-> <<particle>> \o rest.visited]

\* ParticleEffects.update.  [heap, calls, visited]
particle_effects_update(o, g, dt) ==
    LET u == group_update(o, g, dt)
        r == remove_dead_from(u.heap, g, group_get_sprites(u.heap, g), 1)
    IN [heap |-> r.heap, calls |-> u.calls, visited |-> r.visited]

(***************************************************************************)
(* agdpp.py: drawing.  draw(loop) of a sprite is the sequence of the       *)
(* notifications that its calls of loop.draw_circle / loop.draw_text send. *)
(***************************************************************************)
\* GameLoop.clear_screen, draw_circle and draw_text: what they notify.
clear_screen == [name |-> "CLEAR_SCREEN"]

draw_circle(position, radius, color) ==
    [name |-> "DRAW_CIRCLE", x |-> position.x, y |-> position.y,
     radius |-> radius, color |-> color]

draw_text(position, text, color) ==
    [name |-> "DRAW_TEXT", x |-> position.x, y |-> position.y,
     text |-> text, color |-> color]

\* Balloon.draw: a circle of the default color.
balloon_draw(h, b) == <<draw_circle(h[b].position, h[b].radius, "red")>>

\* Arrow.draw: the head and two circles behind it.
arrow_draw(h, a) ==
    LET v == to_unit_point(angle_add(h[a].angle, fraction_of_whole(1, 2)))
    IN <<draw_circle(h[a].position, 10, h[a].color),
         draw_circle(add(h[a].position, times(v, 20)), 15, h[a].color),
         draw_circle(add(h[a].position, times(v, 40)), 20, h[a].color)>>

\* Score.draw
score_draw(points) == <<draw_text(Point(1100, 20), ToString(points), "black")>>

\* SpriteGroup.draw of a group of balloons / of arrows: in order.
RECURSIVE balloons_draw(_, _)
balloons_draw(h, sprites) ==
    IF sprites = <<>> THEN <<>>
    ELSE balloon_draw(h, Head(sprites)) \o balloons_draw(h, Tail(sprites))

RECURSIVE arrows_draw(_, _)
arrows_draw(h, sprites) ==
    IF sprites = <<>> THEN <<>>
    ELSE arrow_draw(h, Head(sprites)) \o arrows_draw(h, Tail(sprites))

\* SpriteGroup.draw of a GameplayScene: the balloons, the bows, the flying
\* arrows, the score.
gameplay_draw(h, sc) ==
    balloons_draw(h, sc.balloons.sprites)
        \o arrows_draw(h, [k \in 1..Len(sc.bows) |-> sc.bows[k].bow])
        \o arrows_draw(h, sc.flying_arrows)
        \o score_draw(sc.score)

\* The lines StartScene.draw prints under "CONTROLS".
ControlsLines ==
    <<"           CONTROLS", "", "Shoot:", "    Space / Xbox A", "",
      "Turn left:", "    Left / Xbox left joystick left", "",
      "Turn right:", "    Right / Xbox left joystick right">>

\* StartScene.draw
start_draw(h, st) ==
    balloons_draw(h, st.balloons.sprites)
        \o <<draw_text(Point(400, 50), "Balloon Shooter", "darkblue"),
             draw_text(Point(100, 150), "Shoot to add player", "darkred")>>
        \o [i \in 1..Len(st.pending_players) |->
               draw_text(Point(150, 220 + 50 * (i - 1)),
                         "Player " \o ToString(i) \o ": " \o st.pending_players[i]
                             \o " (shoot to start game)",
                         "darkred")]
        \o [i \in 1..Len(ControlsLines) |->
               draw_text(Point(800, 400 + (i - 1) * 25), ControlsLines[i], "white")]

\* GameScene.draw
game_draw(h, game) ==
    IF game.active_scene = "StartScene"
    THEN start_draw(h, game.scene)
    ELSE gameplay_draw(h, game.scene)

(***************************************************************************)
(* gameloop.py: GameLoop.run, and the two games of the repository it runs: *)
(* BalloonShooter (agdpp.py) and TestGameThatNotifiesAndExitsImmediately.  *)
(* What run() does is kept as a sequence of calls, each a record           *)
(* [call, ...]; a raised ExitGameLoop is the entry RaiseExit.              *)
(***************************************************************************)
Call(name) == [call |-> name]

Notify(notification) == [call |-> "notify", name |-> notification.name,
                         data |-> notification]

RaiseExit == Call("raise ExitGameLoop")

\* A raised exception that is not an ExitGameLoop.
RaiseError == Call("raise Exception")

\* Variant of game_event that hands the event to the active scene before it
\* looks at what the event is.
game_event_forwards(game, e) ==
    [raised |-> is_user_closed_window(e),
     game   |-> [game EXCEPT !.scene.input_handler = ih_event(@, e)],
     calls  |-> <<[call |-> "active_scene.event", event |-> e]>>
                    \o (IF is_user_closed_window(e) THEN <<RaiseExit>> ELSE <<>>)]

\* GameScene.event: [raised, game, calls: what the call did]
game_event(game, e) ==
    IF is_user_closed_window(e)
    THEN [raised |-> TRUE, game |-> game, calls |-> <<RaiseExit>>]
    ELSE [raised |-> FALSE,
          game   |-> [game EXCEPT !.scene.input_handler = ih_event(@, e)],
          calls  |-> <<[call |-> "active_scene.event", event |-> e]>>]

\* BalloonShooter.event
balloon_shooter_event(game, e) ==
    LET r == game_event(game, e)
    IN [r EXCEPT !.calls = <<[call |-> "game_scene.event", event |-> e]>> \o @]

\* TestGameThatNotifiesAndExitsImmediately.event: it notifies its listeners.
test_game_event(game, e) ==
    [raised |-> FALSE, game |-> game,
     calls  |-> <<[call |-> "game.notify", name |-> "EVENT", event |-> e]>>]

(***************************************************************************)
(* startup.py: StartupApplication, the third game run() is handed, with    *)
(* its StartupScene [cursor, games, dx, dy], its FiniteLoopCondition       *)
(* [iterations, count] and its Command.  dx and dy are axis values, in     *)
(* thousandths.                                                            *)
(***************************************************************************)
\* Game.__init__
Game(name, position, command) ==
    [name |-> name, position |-> position, command |-> command]

\* StartupScene.__init__
StartupScene ==
    [cursor |-> Point(500, 500),
     games  |-> <<Game("SuperTux", Point(100, 100), <<"supertux2">>),
                  Game("Balloon Shooter", Point(100, 200),
                       <<"python", "/home/.../agdpp/agdpp.py">>)>>,
     dx     |-> 0,
     dy     |-> 0]

\* min(self.games, key=lambda game: game.distance_to(self.cursor)): the
\* index of the first game of least distance.  Game.distance_to is
\* Point.distance_to; the distances are compared by their squares.
RECURSIVE closest_from(_, _, _, _)
closest_from(games, cursor, best, i) ==
    IF i > Len(games) THEN best
    ELSE IF distance_sq(games[i].position, cursor)
                < distance_sq(games[best].position, cursor)
    THEN closest_from(games, cursor, i, i + 1)
    ELSE closest_from(games, cursor, best, i + 1)

\* StartupScene.game_closest_to_cursor: the index of the game in games.
game_closest_to_cursor(scene) == closest_from(scene.games, scene.cursor, 1, 2)

\* StartupScene.get_command
get_command(scene) == scene.games[game_closest_to_cursor(scene)].command

\* StartupScene.event: [raised, game: the scene, calls]
startup_scene_event(scene, e) ==
    IF is_user_closed_window(e) \/ is_joystick_down(e, XBOX_A)
    THEN [raised |-> TRUE, game |-> scene, calls |-> <<RaiseExit>>]
    ELSE [raised |-> FALSE,
          game   |-> IF is_joystick_motion(e)
                     THEN IF get_axis(e) = 0 THEN [scene EXCEPT !.dx = get_value(e)]
                          ELSE IF get_axis(e) = 1 THEN [scene EXCEPT !.dy = get_value(e)]
                          ELSE scene
                     ELSE scene,
          calls  |-> <<>>]

\* StartupApplication.event
startup_application_event(scene, e) ==
    LET r == startup_scene_event(scene, e)
    IN [r EXCEPT !.calls = <<[call |-> "startup_scene.event", event |-> e]>> \o @]

\* Point.length is called by StartupScene.update but is not defined in
\* geometry.py: the length of the vector from the origin, here squared.
length_sq(p) == p.x * p.x + p.y * p.y

\* StartupScene.update: "if delta.length() > 0.05", in thousandths, then the
\* cursor moves by delta.times(dt).
startup_scene_update(scene, dt) ==
    LET delta == Point(scene.dx, scene.dy) IN
    IF length_sq(delta) > 50 * 50
    THEN [scene EXCEPT !.cursor = Point(@.x + (delta.x * dt) \div 1000,
                                        @.y + (delta.y * dt) \div 1000)]
    ELSE scene

\* StartupScene.draw and Game.draw
startup_scene_draw(scene) ==
    [i \in 1..Len(scene.games) |->
        draw_text(scene.games[i].position, scene.games[i].name,
                  IF game_closest_to_cursor(scene) = i THEN "lightblue" ELSE "black")]
        \o <<draw_circle(scene.cursor, 20, "pink")>>

\* StartupApplication.tick: [game: the scene, calls]
startup_application_tick(scene, dt) ==
    LET updated == startup_scene_update(scene, dt)
        draws   == startup_scene_draw(updated)
    IN [game  |-> updated,
        calls |-> <<[call |-> "game.tick", dt |-> dt], Notify(clear_screen),
                    [call |-> "startup_scene.update", dt |-> dt]>>
                      \o [i \in 1..Len(draws) |-> Notify(draws[i])]]

\* FiniteLoopCondition.__init__
FiniteLoopCondition(iterations) == [iterations |-> iterations, count |-> 0]

\* Variant of active that also allows a round when count = iterations.
active_inclusive(condition) ==
    [flag      |-> condition.count <= condition.iterations,
     condition |-> [condition EXCEPT !.count = @ + 1]]

\* FiniteLoopCondition.active: [flag: what it returns, condition]
active(condition) ==
    [flag      |-> condition.count < condition.iterations,
     condition |-> [condition EXCEPT !.count = @ + 1]]

\* Command.run: the notification it sends (the subprocess is outside the
\* model).
command_run(command) == Notify([name |-> "COMMAND", command |-> command])

\* The games run() is handed.
BalloonShooter == "BalloonShooter"

TestGame == "TestGameThatNotifiesAndExitsImmediately"

StartupApplication == "StartupApplication"

\* A game whose event() raises an exception other than ExitGameLoop on a
\* key-down of the space key and whose tick() raises one when dt > 0; like
\* the test game it notifies its listeners of every call.
RaisingGame == "GameThatRaises"

raising_game_event(game, e) ==
    LET notified == [call |-> "game.notify", name |-> "EVENT", event |-> e] IN
    IF is_keydown(e, KEY_SPACE)
    THEN [raised |-> TRUE, game |-> game, calls |-> <<notified, RaiseError>>]
    ELSE [raised |-> FALSE, game |-> game, calls |-> <<notified>>]

\* [raised, calls]
raising_game_tick(dt) ==
    LET called == <<[call |-> "game.tick", dt |-> dt],
                    [call |-> "game.notify", name |-> "TICK", dt |-> dt]>>
    IN IF dt > 0 THEN [raised |-> TRUE, calls |-> called \o <<RaiseError>>]
       ELSE [raised |-> FALSE, calls |-> called]

\* game.event(Event(event)) of the game of class kind.
dispatch(kind, game, e) ==
    LET r == IF kind = BalloonShooter
             THEN balloon_shooter_event(game, e)
             ELSE IF kind = StartupApplication
             THEN startup_application_event(game, e)
             ELSE IF kind = RaisingGame
             THEN raising_game_event(game, e)
             ELSE test_game_event(game, e)
    IN [r EXCEPT !.calls = <<[call |-> "game.event", event |-> e]>> \o @]

\* Variant of run_events that goes on with the next event when game.event
\* raises (a try inside the for loop).
RECURSIVE run_events_continue(_, _, _)
run_events_continue(kind, game, events) ==
    IF events = <<>>
    THEN [raised |-> FALSE, game |-> game, calls |-> <<>>, joysticks |-> {}]
    ELSE LET e == Head(events) IN
         IF e.type = "JOYDEVICEADDED"
         THEN LET r == run_events_continue(kind, game, Tail(events))
              IN [r EXCEPT !.calls = <<[call |-> "joystick.Joystick",
                                        device_index |-> e.device_index]>> \o @,
                           !.joysticks = @ \cup {e.device_index}]
         ELSE LET d == dispatch(kind, game, e)
                  r == run_events_continue(kind, d.game, Tail(events))
              IN [r EXCEPT !.calls = d.calls \o @,
                           !.raised = d.raised \/ @]

\* "for event in self.pygame.event.get(): ..." of GameLoop.run: a
\* JOYDEVICEADDED event registers the joystick (the backend's instance id
\* of device i is taken to be i), any other event goes to game.event; the
\* loop ends where game.event raises.
\* [raised, game, calls, joysticks: the ones registered]
RECURSIVE run_events(_, _, _)
run_events(kind, game, events) ==
    IF events = <<>>
    THEN [raised |-> FALSE, game |-> game, calls |-> <<>>, joysticks |-> {}]
    ELSE LET e == Head(events) IN
         IF e.type = "JOYDEVICEADDED"
         THEN LET r == run_events(kind, game, Tail(events))
              IN [r EXCEPT !.calls = <<[call |-> "joystick.Joystick",
                                        device_index |-> e.device_index]>> \o @,
                           !.joysticks = @ \cup {e.device_index}]
         ELSE LET d == dispatch(kind, game, e) IN
              IF d.raised
              THEN [raised |-> TRUE, game |-> d.game, calls |-> d.calls,
                    joysticks |-> {}]
              ELSE LET r == run_events(kind, d.game, Tail(events))
                   IN [r EXCEPT !.calls = d.calls \o @]

\* Events.notify of the tracker of the loop, for the notifications among
\* calls, in order.  The tracker's list is kept as its first and its latest
\* entry and the number of GAMELOOP_INIT and GAMELOOP_QUIT entries.
RECURSIVE track(_, _)
track(lp, calls) ==
    IF calls = <<>> THEN lp
    ELSE IF Head(calls).call # "notify" THEN track(lp, Tail(calls))
    ELSE track([lp EXCEPT
                   !.first  = IF @ = None THEN Head(calls).name ELSE @,
                   !.latest = Head(calls).name,
                   !.inits  = @ + (IF Head(calls).name = "GAMELOOP_INIT" THEN 1 ELSE 0),
                   !.quits  = @ + (IF Head(calls).name = "GAMELOOP_QUIT" THEN 1 ELSE 0)],
               Tail(calls))

\* GameLoop.__init__ and the harness's choice of the game.
GameLoop(kind) ==
    [game |-> kind, pc |-> "created", dt |-> 0, joysticks |-> {},
     first |-> None, latest |-> None, inits |-> 0, quits |-> 0,
     backend_quits |-> 0, propagated |-> FALSE, frame |-> <<>>,
     polled |-> <<>>, clock |-> <<>>]

\* GameLoop.create_null(events): a loop on the null backend, whose event
\* module holds the list of batches (script keeps the list as it was given).
create_null(kind, events) == GameLoop(kind) @@ [events |-> events, script |-> events]

\* Variant of NullEvent.get that leaves the batch it returns in the list.
null_event_get_peek(lp) ==
    IF lp.events # <<>>
    THEN [batch |-> Head(lp.events), loop |-> lp]
    ELSE [batch |-> <<>>, loop |-> lp]

\* NullEvent.get: "if events: return events.pop(0)", else [].
\* [batch, loop: the loop with the rest of the list]
null_event_get(lp) ==
    IF lp.events # <<>>
    THEN [batch |-> Head(lp.events), loop |-> [lp EXCEPT !.events = Tail(@)]]
    ELSE [batch |-> <<>>, loop |-> lp]

\* BalloonShooter.run_in_test_mode(events): the loop it creates.
run_in_test_mode(events) ==
    create_null(BalloonShooter, events \o <<<<create_event_user_closed_window>>>>)

\* GameLoop.run up to "while True".
run_begin(lp) ==
    LET calls == <<Notify([name |-> "GAMELOOP_INIT"]), Call("mixer.pre_init"),
                   Call("pygame.init"), Call("mixer.init"),
                   Call("display.set_mode"), Call("time.Clock")>>
    IN [track(lp, calls) EXCEPT !.pc = "running", !.dt = 0, !.joysticks = {},
                                !.frame = calls]

\* Variant of run_end without an except clause: the exception leaves run().
run_end_propagates(lp, calls) ==
    LET done == <<Notify([name |-> "GAMELOOP_QUIT"]), Call("pygame.quit")>>
    IN [track(lp, calls \o done) EXCEPT
           !.pc = "returned", !.frame = calls \o done,
           !.backend_quits = @ + 1, !.propagated = TRUE]

\* The end of GameLoop.run when ExitGameLoop was raised in the iteration
\* that made calls: "except ExitGameLoop: pass", then the finally clause.
run_end(lp, calls) ==
    LET done == <<Notify([name |-> "GAMELOOP_QUIT"]), Call("pygame.quit")>>
    IN [track(lp, calls \o done) EXCEPT
           !.pc = "returned", !.frame = calls \o done, !.backend_quits = @ + 1]

\* Variant of run_abort without the finally clause.
run_abort_no_finally(lp, calls) ==
    [track(lp, calls) EXCEPT !.pc = "raised", !.frame = calls, !.propagated = TRUE]

\* The end of GameLoop.run when an exception other than ExitGameLoop was
\* raised in the iteration that made calls: the except clause does not
\* match, the finally clause runs, and the exception leaves run().
run_abort(lp, calls) ==
    LET done == <<Notify([name |-> "GAMELOOP_QUIT"]), Call("pygame.quit")>>
    IN [track(lp, calls \o done) EXCEPT
           !.pc = "raised", !.frame = calls \o done,
           !.backend_quits = @ + 1, !.propagated = TRUE]

\* BalloonShooter.tick after game_scene.update(dt): clear_screen and draw,
\* for the heap and game the update left.
balloon_shooter_tick(h, game, dt) ==
    <<[call |-> "game.tick", dt |-> dt], [call |-> "game_scene.update", dt |-> dt],
      Notify(clear_screen)>>
        \o [i \in 1..Len(game_draw(h, game)) |-> Notify(game_draw(h, game)[i])]

\* TestGameThatNotifiesAndExitsImmediately.tick
test_game_tick(dt) ==
    <<[call |-> "game.tick", dt |-> dt],
      [call |-> "game.notify", name |-> "TICK", dt |-> dt], RaiseExit>>

\* Variant of run_frame that calls game.tick before it hands the events of
\* the iteration to the game.
run_frame_tick_first(lp, events_calls, joysticks, tick_calls, next_dt) ==
    LET calls == tick_calls \o events_calls
                    \o <<Call("display.flip"), Call("clock.tick")>>
    IN [track(lp, calls) EXCEPT !.frame = calls, !.dt = next_dt,
                                !.joysticks = @ \cup joysticks]

\* An iteration of "while True" that no exception ends: the events, the
\* tick, display.flip() and clock.tick(fps), which returns next_dt.
run_frame(lp, events_calls, joysticks, tick_calls, next_dt) ==
    LET calls == events_calls \o tick_calls
                    \o <<Call("display.flip"), Call("clock.tick")>>
    IN [track(lp, calls) EXCEPT !.frame = calls, !.dt = next_dt,
                                !.joysticks = @ \cup joysticks]

\* The heap and the scene with the objects of the scene renumbered 0, 1, ...
\* in the order balloons, bows, flying arrows, and every other object (no
\* longer referenced) dropped.  Identities carry no information but
\* "same object", which the renumbering keeps.
index_of(seq, x) == CHOOSE i \in 1..Len(seq) : seq[i] = x

compact(h, sc) ==
    LET order  == sc.balloons.sprites
                    \o [k \in 1..Len(sc.bows) |-> sc.bows[k].bow]
                    \o sc.flying_arrows
        ren(id) == index_of(order, id) - 1
    IN [heap  |-> [i \in 0..(Len(order) - 1) |-> h[order[i + 1]]],
        scene |-> [sc EXCEPT
                     !.balloons.sprites = [k \in 1..Len(@) |-> ren(@[k])],
                     !.bows = [k \in 1..Len(@) |-> [@[k] EXCEPT !.bow = ren(@)]],
                     !.flying_arrows = [k \in 1..Len(@) |-> ren(@[k])]]]

(***************************************************************************)
(* The bow harness: one Bow, turned by arbitrary deltas and shot; the      *)
(* caller keeps the arrows that shoot() returned.                          *)
(***************************************************************************)
NoOp == [op |-> "none"]

\* No SpriteGroup and no key history, and no GameLoop: the harnesses that
\* do not use these variables leave them idle.
Idle ==
    /\ group = None
    /\ keys_down = {}
    /\ turned = <<>>
    /\ startup = None
    /\ geometry = None

NoLoop == loop = None

\* No start scene and no game: the harnesses of the other objects leave
\* these variables idle.
NoStart ==
    /\ active_scene = None
    /\ pending_players = <<>>
    /\ players = None

\* No scene: the harnesses of single objects leave the scene variables idle.
NoScene ==
    /\ input_handler = None
    /\ bows = <<>>
    /\ flying_arrows = <<>>
    /\ score = 0
    /\ NoStart
    /\ fed = <<>>
    /\ popped = 0

TurnDeltas == {45 * k : k \in (-MaxTurnSteps)..MaxTurnSteps}

BowColors == {"blue", "green"}

InitBow ==
    /\ \E c \in BowColors : heap = Bow(EmptyHeap, Point(600, 600), c)
    /\ bow = NewId(EmptyHeap)
    /\ shot = <<>>
    /\ balloons = None
    /\ NoScene
    /\ last = NoOp
    /\ Idle
    /\ NoLoop

\* bow.turn(Angle(delta))
BowTurn(delta) ==
    /\ Abs(angle_add(get_angle(heap, bow), delta)) <= MaxDegrees
    /\ heap' = turn(heap, bow, delta)
    /\ UNCHANGED <<bowVars, balloons, sceneVars, startVars, histVars, idleVars, loop>>
    /\ last' = [op       |-> "turn",
                before   |-> get_angle(heap, bow),
                delta    |-> delta,
                rejected |-> unit_y_sign(get_angle(heap, bow) + delta) >= 0,
                after_rejected |-> (last.op = "turn" /\ last.rejected),
                origin   |-> IF last.op = "turn" /\ last.rejected
                             THEN last.before ELSE get_angle(heap, bow)]

\* shot.append(bow.shoot())
BowShoot ==
    /\ Len(shot) < MaxShot
    /\ LET r == shoot(heap, bow) IN
        /\ heap' = r.heap
        /\ shot' = Append(shot, r.result)
    /\ UNCHANGED <<bow, balloons, sceneVars, startVars, histVars, idleVars, loop>>
    /\ last' = [op |-> "shoot", before |-> heap[bow]]

NextBow ==
    \/ \E delta \in TurnDeltas : BowTurn(delta)
    \/ BowShoot

SpecBow == InitBow /\ [][NextBow]_vars

(***************************************************************************)
(* The balloons harness: one Balloons group built from given positions and *)
(* a target, updated, and losing balloons to its owner (as GameplayScene   *)
(* removes the balloon an arrow hit).                                      *)
(***************************************************************************)
\* Positions handed to the constructor: inside the screen, and outside
\* screen_area.inflate(2 * radius).
GivenPositions == {Point(100, 100), Point(1000, 1000)}

GivenLists == UNION {[1..n -> GivenPositions] : n \in 0..MaxGiven}

InitBalloons ==
    /\ \E positions \in GivenLists, n \in 0..MaxTarget :
          LET r == balloons_init(EmptyHeap, positions, screen_area, n) IN
          /\ heap = r.heap
          /\ balloons = r.group
    /\ bow = None
    /\ shot = <<>>
    /\ NoScene
    /\ last = NoOp
    /\ Idle
    /\ NoLoop

\* balloons.update(dt)
BalloonsUpdate(dt) ==
    \E xs \in Draws(spawn_count(heap, balloons, dt)) :
        LET r == balloons_update(heap, balloons, dt, xs) IN
        /\ heap' = collect(r.heap, Range(r.group.sprites))
        /\ balloons' = r.group
        /\ UNCHANGED <<bowVars, sceneVars, startVars, histVars, idleVars, loop>>
        /\ last' = [op |-> "balloons_update", dt |-> dt,
                    held |-> Len(balloons.sprites)]

\* balloons.remove(b), by the owner of the group
BalloonsRemove(b) ==
    /\ balloons' = [balloons EXCEPT !.sprites = sg_remove(@, b)]
    /\ heap' = collect(heap, Range(balloons'.sprites))
    /\ UNCHANGED <<bowVars, sceneVars, startVars, histVars, idleVars, loop>>
    /\ last' = [op |-> "balloons_remove"]

NextBalloons ==
    \/ \E dt \in DtValues : BalloonsUpdate(dt)
    \/ \E b \in Range(balloons.sprites) : BalloonsRemove(b)

SpecBalloons == InitBalloons /\ [][NextBalloons]_vars

(***************************************************************************)
(* The gameplay harness: one GameplayScene, made by its constructor, that  *)
(* receives events and updates as the game loop delivers them.             *)
(***************************************************************************)
\* The arguments of the constructor.
GameplayPlayers == <<"keyboard">>

GivenBalloons ==
    {<<>>, <<Point(640, 625)>>, <<Point(100, 100)>>, <<Point(1000, 1000)>>}

GivenArrows == {<<>>, <<Point(640, 0)>>, <<Point(500, 500)>>}

\* The events of one frame, in the order the game loop delivers them before
\* it calls update.
GameplayEvents ==
    {<<>>,
     <<create_event_keydown(KEY_SPACE)>>,
     <<create_event_keyup(KEY_SPACE)>>,
     <<create_event_joystick_down(XBOX_A, 0), create_event_keydown(KEY_SPACE)>>,
     <<create_event_keydown(KEY_SPACE), create_event_joystick_down(XBOX_A, 0)>>,
     <<create_event_joystick_motion(0, -500, 0)>>,
     <<create_event_joystick_motion(0, 500, 0)>>}

\* The updates fed to the scene (milliseconds).
GameplayDts == {0, 1250}

\* The draws of a frame that spawns n balloons.
GameplayDraws(n) == {[i \in 1..n |-> SpawnXs[1]]}

\* The input source of a shoot event (KEY_SPACE key-down, XBOX_A button-down),
\* None for any other event.
shoot_source(e) ==
    IF e.type = "KEYDOWN" /\ e.key = KEY_SPACE THEN "keyboard"
    ELSE IF e.type = "JOYBUTTONDOWN" /\ e.button = XBOX_A
    THEN "joystick" \o ToString(e.instance_id)
    ELSE None

\* The model follows the turns by a multiple of a right angle, for which
\* to_unit_point is exact.
right_angles(ih, dt) ==
    \A i \in 1..Len(ih.turn_factors) :
        (360 * ih.turn_factors[i].value * dt) % (90 * 1000 * TurnSpeedInverse) = 0

Scene ==
    [balloons      |-> balloons,
     bows          |-> bows,
     flying_arrows |-> flying_arrows,
     score         |-> score,
     input_handler |-> input_handler]

InitGameplay ==
    \E given_balloons \in GivenBalloons, given_arrows \in GivenArrows :
        LET g == GameplayScene(EmptyHeap, screen_area, given_balloons,
                               given_arrows, GameplayPlayers)
        IN /\ heap = g.heap
           /\ balloons = g.scene.balloons
           /\ bows = g.scene.bows
           /\ flying_arrows = g.scene.flying_arrows
           /\ score = g.scene.score
           /\ input_handler = g.scene.input_handler
           /\ bow = None
           /\ shot = <<>>
           /\ NoStart
           /\ fed = <<>>
           /\ popped = 0
           /\ last = NoOp
           /\ Idle
           /\ NoLoop

\* GameplayScene.event for every event of the sequence, in order.
RECURSIVE events_all(_, _)
events_all(ih, events) ==
    IF events = <<>> THEN ih
    ELSE events_all(ih_event(ih, Head(events)), Tail(events))

\* The sources of the shoot events of the sequence, in order.
RECURSIVE shoot_sources(_)
shoot_sources(events) ==
    IF events = <<>> THEN <<>>
    ELSE IF shoot_source(Head(events)) # None
    THEN <<shoot_source(Head(events))>> \o shoot_sources(Tail(events))
    ELSE shoot_sources(Tail(events))

\* One frame of the game loop on the scene: GameplayScene.event for every
\* event of the frame, then GameplayScene.update(dt).
GameplayStep(events, dt) ==
    LET ih == events_all(input_handler, events)
        sc == [Scene EXCEPT !.input_handler = ih]
    IN /\ right_angles(ih, dt)
       /\ \E xs \in GameplayDraws(spawn_count(heap, balloons, dt)) :
           \E r \in {gameplay_update(heap, sc, dt, xs)} :
           \E c \in {compact(r.heap, r.scene)} :
              /\ heap' = c.heap
              /\ balloons' = c.scene.balloons
              /\ bows' = c.scene.bows
              /\ flying_arrows' = c.scene.flying_arrows
              /\ score' = c.scene.score
              /\ input_handler' = c.scene.input_handler
              /\ fed' = shoot_sources(events)
              /\ popped' = popped + Cardinality(Range(r.mid.scene.balloons.sprites)
                                                   \ Range(r.scene.balloons.sprites))
              /\ last' = [op   |-> "update",
                          dt   |-> dt,
                          pre  |-> [heap          |-> heap,
                                    balloons      |-> balloons,
                                    bows          |-> bows,
                                    flying_arrows |-> flying_arrows,
                                    score         |-> score,
                                    pending       |-> ih.shots_triggered],
                          mid  |-> [heap          |-> r.mid.heap,
                                    balloons      |-> r.mid.scene.balloons,
                                    flying_arrows |-> r.mid.scene.flying_arrows],
                          post |-> [balloons      |-> r.scene.balloons,
                                    flying_arrows |-> r.scene.flying_arrows]]
       /\ UNCHANGED <<bowVars, startVars, idleVars>>

\* GameplayStep within the bounds up to which the model follows a game.
GameplayFrame(events, dt) ==
    /\ score < MaxScore
    /\ Len(flying_arrows) + Len(events_all(input_handler, events).shots_triggered)
          <= MaxArrows
    /\ GameplayStep(events, dt)

NextGameplay ==
    \E events \in GameplayEvents, dt \in GameplayDts :
        GameplayFrame(events, dt) /\ UNCHANGED loop

SpecGameplay == InitGameplay /\ [][NextGameplay]_vars

(***************************************************************************)
(* The start harness: one StartScene that receives frames of events and    *)
(* updates; and the game harness: one GameScene, as BalloonShooter runs it.*)
(***************************************************************************)
\* The screen area the scenes of these harnesses are built with: its width
\* divides into whole bow positions for one, two and three players.
scene_area == from_size(1200, 720)

\* The positions StartScene.__init__ draws: the model follows the draws
\* that put every balloon on the top edge, or every balloon on the bottom edge.
StartPositions ==
    {[i \in 1..StartBalloons |-> Point(SpawnXs[1], y)] :
        y \in {scene_area.topleft.y, scene_area.bottomright.y}}

StartEvents ==
    {<<>>,
     <<create_event_keydown(KEY_SPACE)>>,
     <<create_event_keyup(KEY_SPACE)>>,
     <<create_event_joystick_down(XBOX_A, 0)>>,
     <<create_event_joystick_down(XBOX_START, 0)>>,
     <<create_event_keydown(KEY_SPACE), create_event_keydown(KEY_SPACE)>>,
     <<create_event_keydown(KEY_SPACE), create_event_joystick_down(XBOX_A, 0)>>,
     <<create_event_joystick_down(XBOX_A, 1), create_event_joystick_down(XBOX_A, 0)>>}

StartSceneNow ==
    [Scene EXCEPT !.input_handler = input_handler]
        @@ [pending_players |-> pending_players, players |-> players]

InitStart ==
    \E positions \in StartPositions :
        LET st == StartScene(EmptyHeap, scene_area, positions)
        IN /\ heap = st.heap
           /\ balloons = st.scene.balloons
           /\ bows = st.scene.bows
           /\ flying_arrows = st.scene.flying_arrows
           /\ score = st.scene.score
           /\ input_handler = st.scene.input_handler
           /\ pending_players = st.scene.pending_players
           /\ players = st.scene.players
           /\ active_scene = None
           /\ bow = None
           /\ shot = <<>>
           /\ fed = <<>>
           /\ popped = 0
           /\ last = NoOp
           /\ Idle
           /\ NoLoop

\* One frame on the start scene: StartScene.event for every event of the
\* frame, then StartScene.update(dt).
StartFrame(events, dt) ==
    LET ih == events_all(input_handler, events)
        st == [StartSceneNow EXCEPT !.input_handler = ih]
    IN /\ \E xs \in GameplayDraws(spawn_count(heap, balloons, dt)) :
           \E r \in {start_update(heap, st, dt, xs)} :
           \E c \in {compact(r.heap, r.scene)} :
              /\ heap' = c.heap
              /\ balloons' = c.scene.balloons
              /\ input_handler' = c.scene.input_handler
              /\ pending_players' = c.scene.pending_players
              /\ players' = c.scene.players
              /\ fed' = shoot_sources(events)
              /\ last' = [op  |-> "start_update",
                          dt  |-> dt,
                          pre |-> [pending_players |-> pending_players,
                                   players         |-> players]]
       /\ UNCHANGED <<bowVars, bows, flying_arrows, score, active_scene, popped,
                      idleVars, loop>>

NextStart ==
    \E events \in StartEvents, dt \in GameplayDts : StartFrame(events, dt)

SpecStart == InitStart /\ [][NextStart]_vars

GameNow ==
    [active_scene |-> active_scene, scene |-> StartSceneNow]

\* BalloonShooter.__init__: the game scene, with the positions it drew.
GameBuilt ==
    \E positions \in StartPositions :
        LET g == GameScene(EmptyHeap, scene_area, positions)
        IN /\ heap = g.heap
           /\ active_scene = g.game.active_scene
           /\ balloons = g.game.scene.balloons
           /\ bows = g.game.scene.bows
           /\ flying_arrows = g.game.scene.flying_arrows
           /\ score = g.game.scene.score
           /\ input_handler = g.game.scene.input_handler
           /\ pending_players = g.game.scene.pending_players
           /\ players = g.game.scene.players
           /\ bow = None
           /\ shot = <<>>
           /\ fed = <<>>
           /\ popped = 0
           /\ last = NoOp
           /\ Idle

InitGame == GameBuilt /\ NoLoop

\* One frame of the game loop while the active scene is the start scene:
\* GameScene.event for every event of the frame (none of them closes the
\* window), then GameScene.update(dt).
GameStartFrame(events, dt) ==
    LET ih   == events_all(input_handler, events)
        game == [GameNow EXCEPT !.scene.input_handler = ih]
    IN /\ active_scene = "StartScene"
       /\ \A i \in 1..Len(events) : ~raises_exit(events[i])
       /\ \E xs \in GameplayDraws(spawn_count(heap, balloons, dt)) :
           \E r \in {game_update(heap, game, dt, xs, scene_area)} :
           \E c \in {compact(r.heap, r.game.scene)} :
              /\ heap' = c.heap
              /\ active_scene' = r.game.active_scene
              /\ balloons' = c.scene.balloons
              /\ bows' = c.scene.bows
              /\ flying_arrows' = c.scene.flying_arrows
              /\ score' = c.scene.score
              /\ input_handler' = c.scene.input_handler
              /\ pending_players' = c.scene.pending_players
              /\ players' = c.scene.players
              /\ fed' = shoot_sources(events)
              /\ last' = [op    |-> "game_update",
                          dt    |-> dt,
                          was   |-> active_scene,
                          pre   |-> [pending_players |-> pending_players],
                          start |-> [pending_players |-> r.start.pending_players,
                                     players         |-> r.start.players,
                                     input_handler   |-> r.start.input_handler]]
       /\ UNCHANGED <<bowVars, popped, idleVars>>

\* One frame of the game loop while the active scene is the gameplay scene.
GamePlayFrame(events, dt) ==
    /\ active_scene = "GameplayScene"
    /\ \A i \in 1..Len(events) : ~raises_exit(events[i])
    /\ GameplayFrame(events, dt)

GameEvents ==
    {<<>>,
     <<create_event_keydown(KEY_SPACE)>>,
     <<create_event_joystick_down(XBOX_A, 0)>>,
     <<create_event_keydown(KEY_SPACE), create_event_joystick_down(XBOX_A, 0)>>,
     <<create_event_joystick_down(XBOX_A, 1)>>,
     <<create_event_joystick_motion(0, -500, 1)>>}

NextGame ==
    \/ \E events \in GameEvents, dt \in GameplayDts :
          GameStartFrame(events, dt) /\ UNCHANGED loop
    \/ \E events \in GameEvents, dt \in GameplayDts :
          GamePlayFrame(events, dt) /\ UNCHANGED loop

SpecGame == InitGame /\ [][NextGame]_vars

(***************************************************************************)
(* The loop harness: GameLoop.run(game), where game is a BalloonShooter or *)
(* a TestGameThatNotifiesAndExitsImmediately.  The backend hands run() a   *)
(* batch of events per iteration and the clock the next dt.                *)
(***************************************************************************)
\* pygame's event for a joystick that was plugged in.
JoyDeviceAdded(device_index) ==
    [type |-> "JOYDEVICEADDED", device_index |-> device_index]

\* The batches the backend hands run().
LoopEvents ==
    {<<>>,
     <<create_event_keydown(KEY_SPACE)>>,
     <<JoyDeviceAdded(0), create_event_joystick_down(XBOX_A, 0)>>,
     <<create_event_joystick_down(XBOX_A, 0), create_event_keydown(KEY_SPACE)>>,
     <<create_event_user_closed_window>>,
     <<create_event_keydown(KEY_SPACE), create_event_user_closed_window,
       create_event_keydown(KEY_SPACE)>>,
     <<create_event_user_closed_window, JoyDeviceAdded(0),
       create_event_user_closed_window>>}

\* The events of a batch that run() hands to game.event.
RECURSIVE game_events(_)
game_events(events) ==
    IF events = <<>> THEN <<>>
    ELSE IF Head(events).type = "JOYDEVICEADDED" THEN game_events(Tail(events))
    ELSE <<Head(events)>> \o game_events(Tail(events))

InitLoop ==
    /\ GameBuilt
    /\ \E kind \in {BalloonShooter, TestGame, RaisingGame} : loop = GameLoop(kind)

\* loop.run(game) is called.
LoopRun ==
    /\ loop.pc = "created"
    /\ loop' = run_begin(loop)
    /\ last' = [op |-> "run"]
    /\ UNCHANGED <<heap, bowVars, balloons, sceneVars, startVars, histVars, idleVars>>

\* An iteration of run(BalloonShooter) that raises nothing: the events, then
\* tick(dt) with the dt of the previous iteration's clock.
LoopFrame(events, next_dt) ==
    /\ loop.pc = "running"
    /\ loop.game = BalloonShooter
    /\ \E r \in {run_events(loop.game, GameNow, events)} :
          /\ ~r.raised
          /\ \/ GameStartFrame(game_events(events), loop.dt)
             \/ GamePlayFrame(game_events(events), loop.dt)
          /\ loop' = [run_frame(loop, r.calls, r.joysticks,
                                balloon_shooter_tick(heap', GameNow', loop.dt),
                                next_dt)
                         EXCEPT !.polled = events, !.clock = <<next_dt>>]

\* An iteration of run(BalloonShooter) in which game.event raises
\* ExitGameLoop: the events before it have reached the scene, and run() ends.
LoopExitInEvent(events) ==
    /\ loop.pc = "running"
    /\ loop.game = BalloonShooter
    /\ \E r \in {run_events(loop.game, GameNow, events)} :
          /\ r.raised
          /\ input_handler' = r.game.scene.input_handler
          /\ loop' = [run_end(loop, r.calls) EXCEPT !.polled = events]
    /\ last' = [op |-> "exit", events |-> events, input_handler |-> input_handler]
    /\ UNCHANGED <<heap, bowVars, balloons, bows, flying_arrows, score,
                   startVars, histVars, idleVars>>

\* An iteration of run(TestGameThatNotifiesAndExitsImmediately): the events,
\* then tick(dt), which raises ExitGameLoop, and run() ends.
LoopExitInTick(events) ==
    /\ loop.pc = "running"
    /\ loop.game = TestGame
    /\ \E r \in {run_events(loop.game, GameNow, events)} :
          /\ ~r.raised
          /\ loop' = [run_end(loop, r.calls \o test_game_tick(loop.dt))
                         EXCEPT !.joysticks = @ \cup r.joysticks,
                                !.polled = events]
    /\ last' = [op |-> "exit", events |-> events, input_handler |-> input_handler]
    /\ UNCHANGED <<heap, bowVars, balloons, sceneVars, startVars, histVars, idleVars>>

\* An iteration of run(GameThatRaises) that raises nothing.
LoopRaisingFrame(events, next_dt) ==
    /\ loop.pc = "running"
    /\ loop.game = RaisingGame
    /\ \E r \in {run_events(loop.game, GameNow, events)} :
       \E t \in {raising_game_tick(loop.dt)} :
          /\ ~r.raised
          /\ ~t.raised
          /\ loop' = [run_frame(loop, r.calls, r.joysticks, t.calls, next_dt)
                         EXCEPT !.polled = events, !.clock = <<next_dt>>]
    /\ last' = [op |-> "tick", dt |-> loop.dt]
    /\ UNCHANGED <<heap, bowVars, balloons, sceneVars, startVars, histVars, idleVars>>

\* An iteration of run(GameThatRaises) in which game.event raises.
LoopFailInEvent(events) ==
    /\ loop.pc = "running"
    /\ loop.game = RaisingGame
    /\ \E r \in {run_events(loop.game, GameNow, events)} :
          /\ r.raised
          /\ loop' = [run_abort(loop, r.calls) EXCEPT !.polled = events]
    /\ last' = [op |-> "fail", events |-> events, input_handler |-> input_handler]
    /\ UNCHANGED <<heap, bowVars, balloons, sceneVars, startVars, histVars, idleVars>>

\* An iteration of run(GameThatRaises) in which game.tick raises.
LoopFailInTick(events) ==
    /\ loop.pc = "running"
    /\ loop.game = RaisingGame
    /\ \E r \in {run_events(loop.game, GameNow, events)} :
       \E t \in {raising_game_tick(loop.dt)} :
          /\ ~r.raised
          /\ t.raised
          /\ loop' = [run_abort(loop, r.calls \o t.calls)
                         EXCEPT !.joysticks = @ \cup r.joysticks,
                                !.polled = events]
    /\ last' = [op |-> "fail", events |-> events, input_handler |-> input_handler]
    /\ UNCHANGED <<heap, bowVars, balloons, sceneVars, startVars, histVars, idleVars>>

NextLoop ==
    \/ LoopRun
    \/ \E events \in LoopEvents, next_dt \in GameplayDts : LoopRaisingFrame(events, next_dt)
    \/ \E events \in LoopEvents : LoopFailInEvent(events)
    \/ \E events \in LoopEvents : LoopFailInTick(events)
    \/ \E events \in LoopEvents, next_dt \in GameplayDts : LoopFrame(events, next_dt)
    \/ \E events \in LoopEvents : LoopExitInEvent(events)
    \/ \E events \in LoopEvents : LoopExitInTick(events)

SpecLoop == InitLoop /\ [][NextLoop]_vars

(***************************************************************************)
(* The test mode harness: BalloonShooter.run_in_test_mode(events) for a    *)
(* finite script of batches.  run() is a sequential program that keeps     *)
(* running, hence the fairness on its steps.                               *)
(***************************************************************************)
TestBatches ==
    {<<>>,
     <<create_event_keydown(KEY_SPACE)>>,
     <<create_event_keydown(KEY_SPACE), create_event_joystick_down(XBOX_A, 0)>>,
     <<create_event_user_closed_window>>}

TestScripts == UNION {[1..n -> TestBatches] : n \in 0..MaxBatches}

InitTestMode ==
    /\ GameBuilt
    /\ \E events \in TestScripts : loop = run_in_test_mode(events)

\* "def tick(self, fps): return 1" of NullTime.Clock
NullClockTick == 1

\* What an iteration that polled batch needs to be followed to its end: no
\* event of it closes the window, and the bows of a gameplay scene turn by
\* right angles (GameplayStep).
TestModeFrameGuard(batch) ==
    /\ \A i \in 1..Len(batch) : ~raises_exit(batch[i])
    /\ \/ active_scene = "StartScene"
       \/ /\ active_scene = "GameplayScene"
          /\ right_angles(events_all(input_handler, game_events(batch)), loop.dt)

\* The states in which TestModeFrame can be taken.
TestModeCanRun ==
    /\ loop.pc = "running"
    /\ TestModeFrameGuard(null_event_get(loop).batch)

\* An iteration of run() on the null backend that raises nothing.
TestModeFrame ==
    /\ loop.pc = "running"
    /\ \E g \in {null_event_get(loop)} :
       \E r \in {run_events(loop.game, GameNow, g.batch)} :
          /\ ~r.raised
          /\ \/ GameStartFrame(game_events(g.batch), loop.dt)
             \/ /\ active_scene = "GameplayScene"
                /\ GameplayStep(game_events(g.batch), loop.dt)
          /\ \E t \in {balloon_shooter_tick(heap', GameNow', loop.dt)} :
                loop' = [run_frame(g.loop, r.calls, r.joysticks, t, NullClockTick)
                            EXCEPT !.polled = g.batch, !.clock = <<NullClockTick>>]

\* An iteration of run() on the null backend in which game.event raises
\* ExitGameLoop.
TestModeExit ==
    /\ loop.pc = "running"
    /\ \E g \in {null_event_get(loop)} :
       \E r \in {run_events(loop.game, GameNow, g.batch)} :
          /\ r.raised
          /\ input_handler' = r.game.scene.input_handler
          /\ loop' = [run_end(g.loop, r.calls) EXCEPT !.polled = g.batch]
          /\ last' = [op |-> "exit", events |-> g.batch, input_handler |-> input_handler]
    /\ UNCHANGED <<heap, bowVars, balloons, bows, flying_arrows, score,
                   startVars, histVars, idleVars>>

NextTestMode ==
    \/ LoopRun
    \/ TestModeFrame
    \/ TestModeExit

\* Weak fairness of every step of run().  For the frame it is written out,
\* WF_vars(A) being []<>~(ENABLED <<A>>_vars) \/ []<><<A>>_vars, with
\* TestModeCanRun for ENABLED <<TestModeFrame>>_vars (a frame that can be
\* taken pops a batch, so it changes vars).
TestModeFairness ==
    /\ WF_vars(LoopRun)
    /\ WF_vars(TestModeExit)
    /\ ([]<>~TestModeCanRun \/ []<><<TestModeFrame>>_vars)

SpecTestMode == InitTestMode /\ [][NextTestMode]_vars /\ TestModeFairness

(***************************************************************************)
(* The startup harness: StartupApplication.run() with a                    *)
(* FiniteLoopCondition, a GameLoop and a Command that report to one event  *)
(* tracker (kept in loop, as track keeps it).  startup is [loop_condition, *)
(* startup_scene, pc, commands: the commands of the COMMAND notifications  *)
(* so far (history)]; pc is where run() is: about to call active()         *)
(* ("condition"), inside loop.run ("loop"), about to call command.run      *)
(* ("command"), or "returned".                                             *)
(***************************************************************************)
\* The batches the backend hands run(): the stick up and down along axis 1,
\* slightly right along axis 0, released, and the two events that leave.
StartupEvents ==
    {<<>>,
     <<create_event_joystick_motion(1, -1000, 0)>>,
     <<create_event_joystick_motion(1, 1000, 0)>>,
     <<create_event_joystick_motion(1, 0, 0), create_event_joystick_motion(0, 40, 0)>>,
     <<create_event_user_closed_window>>,
     <<create_event_joystick_down(XBOX_A, 0)>>,
     <<create_event_joystick_motion(1, -1000, 0), create_event_user_closed_window,
       create_event_joystick_motion(1, 1000, 0)>>}

\* What the clock returns (milliseconds).
StartupDts == {0, 350}

InitStartup ==
    /\ \E iterations \in 0..MaxIterations :
          startup = [loop_condition |-> FiniteLoopCondition(iterations),
                     startup_scene  |-> StartupScene,
                     pc             |-> "condition",
                     commands       |-> <<>>]
    /\ loop = GameLoop(StartupApplication)
    /\ heap = EmptyHeap
    /\ bow = None
    /\ shot = <<>>
    /\ balloons = None
    /\ NoScene
    /\ group = None
    /\ keys_down = {}
    /\ turned = <<>>
    /\ geometry = None
    /\ last = NoOp

restOfStartup == <<heap, bowVars, balloons, sceneVars, startVars, histVars,
                   group, keys_down, turned, geometry>>

\* "while self.loop_condition.active():" and, when it is true, the start of
\* self.loop.run(self).
StartupActive ==
    /\ startup.pc = "condition"
    /\ \E r \in {active(startup.loop_condition)} :
          /\ startup' = [startup EXCEPT !.loop_condition = r.condition,
                                        !.pc = IF r.flag THEN "loop" ELSE "returned"]
          /\ loop' = IF r.flag THEN run_begin(loop) ELSE loop
          /\ last' = [op |-> "active", flag |-> r.flag]
    /\ UNCHANGED restOfStartup

\* An iteration of loop.run(self) that raises nothing.
StartupFrame(events, next_dt) ==
    /\ startup.pc = "loop"
    /\ \E r \in {run_events(StartupApplication, startup.startup_scene, events)} :
       \E t \in {startup_application_tick(r.game, loop.dt)} :
          /\ ~r.raised
          /\ Abs(t.game.cursor.x) <= MaxCursor
          /\ Abs(t.game.cursor.y) <= MaxCursor
          /\ startup' = [startup EXCEPT !.startup_scene = t.game]
          /\ loop' = [run_frame(loop, r.calls, r.joysticks, t.calls, next_dt)
                         EXCEPT !.polled = events, !.clock = <<next_dt>>]
    /\ last' = [op |-> "tick", dt |-> loop.dt]
    /\ UNCHANGED restOfStartup

\* An iteration of loop.run(self) in which StartupScene.event raises
\* ExitGameLoop: run() returns to StartupApplication.run.
StartupExit(events) ==
    /\ startup.pc = "loop"
    /\ \E r \in {run_events(StartupApplication, startup.startup_scene, events)} :
          /\ r.raised
          /\ startup' = [startup EXCEPT !.startup_scene = r.game, !.pc = "command"]
          /\ loop' = [run_end(loop, r.calls) EXCEPT !.polled = events]
    /\ last' = [op |-> "exit", events |-> events, input_handler |-> None]
    /\ UNCHANGED restOfStartup

\* self.command.run(self.startup_scene.get_command())
StartupCommand ==
    /\ startup.pc = "command"
    /\ \E command \in {get_command(startup.startup_scene)} :
          /\ startup' = [startup EXCEPT !.pc = "condition",
                                        !.commands = Append(@, command)]
          /\ loop' = track(loop, <<command_run(command)>>)
          /\ last' = [op |-> "command", command |-> command, after |-> loop.latest]
    /\ UNCHANGED restOfStartup

NextStartup ==
    \/ StartupActive
    \/ \E events \in StartupEvents, next_dt \in StartupDts : StartupFrame(events, next_dt)
    \/ \E events \in StartupEvents : StartupExit(events)
    \/ StartupCommand

SpecStartup == InitStartup /\ [][NextStartup]_vars

(***************************************************************************)
(* The geometry harness: the pure functions of Rectangle and of the hit    *)
(* test, applied to arguments drawn at the start.  geometry is one of      *)
(*   [subject "contains", r, point, result: <<>> until contains is called, *)
(*    then <<what it returned>>],                                          *)
(*   [subject "rectangle", floats: whether the coordinates are doubles,    *)
(*    trail: the rectangles so far (the last is the current one), ops: the *)
(*    calls so far, each [name, amount]],                                  *)
(*   [subject "hit", arrow, balloon: their positions, result].             *)
(***************************************************************************)
GeoRectangles ==
    {from_size(200, 100),
     Rectangle(Point(-3, -2), Point(3, 2)),
     Rectangle(Point(5, 5), Point(5, 5))}

FloatRectangles ==
    {Rectangle(Point(Float(0, 0), Float(0, 0)), Point(Float(1, 0), Float(1, 0))),
     Rectangle(Point(Float(0, 0), Float(1, 0)), Point(Float(3, 0), Float(2, 0)))}

\* Coordinates on, next to and between two edges.
Around(low, high) == {low - 1, low, (low + high) \div 2, high, high + 1}

ContainsCases ==
    UNION {{[subject |-> "contains", r |-> r, point |-> Point(x, y), result |-> <<>>] :
               x \in Around(r.topleft.x, r.bottomright.x),
               y \in Around(r.topleft.y, r.bottomright.y)} :
           r \in GeoRectangles}

RectangleCases ==
    {[subject |-> "rectangle", floats |-> FALSE, trail |-> <<r>>, ops |-> <<>>] :
        r \in GeoRectangles}
    \cup
    {[subject |-> "rectangle", floats |-> TRUE, trail |-> <<r>>, ops |-> <<>>] :
        r \in FloatRectangles}

\* Offsets of an arrow from the centre of a balloon of radius 40: inside, on
\* the rim (40 = sqrt(24^2 + 32^2)) and just outside.
HitOffsets == {-41, -40, -32, -29, -28, -24, 0, 24, 28, 29, 32, 40, 41}

HitCases ==
    {[subject |-> "hit", arrow |-> Point(50 + dx, 50 + dy), balloon |-> Point(50, 50),
      result |-> <<>>] : dx \in HitOffsets, dy \in HitOffsets}

InitGeometry ==
    /\ geometry \in ContainsCases \cup RectangleCases \cup HitCases
    /\ startup = None
    /\ loop = None
    /\ heap = EmptyHeap
    /\ bow = None
    /\ shot = <<>>
    /\ balloons = None
    /\ NoScene
    /\ group = None
    /\ keys_down = {}
    /\ turned = <<>>
    /\ last = NoOp

restOfGeometry == <<heap, bowVars, balloons, sceneVars, startVars, histVars,
                    group, keys_down, turned, startup, loop>>

\* r.contains(point)
GeometryContains ==
    /\ geometry.subject = "contains"
    /\ geometry.result = <<>>
    /\ geometry' = [geometry EXCEPT !.result = <<contains(geometry.r, geometry.point)>>]
    /\ last' = [op |-> "contains"]
    /\ UNCHANGED restOfGeometry

\* The amount of t units: t on whole-number coordinates, t/10 as written in
\* the source on doubles.
GeoAmount(floats, t) == IF floats THEN Float(t, 0) ELSE t

\* rect = rect.inflate(amount)
GeometryInflate(t) ==
    /\ geometry.subject = "rectangle"
    /\ Len(geometry.ops) < MaxOps
    /\ LET rect   == geometry.trail[Len(geometry.trail)]
           amount == GeoAmount(geometry.floats, t)
       IN /\ geometry.floats => inflate_listed(rect, amount)
          /\ geometry' = [geometry EXCEPT
                !.trail = Append(@, IF geometry.floats THEN inflate_float(rect, amount)
                                    ELSE inflate(rect, amount)),
                !.ops   = Append(@, [name |-> "inflate", amount |-> amount])]
    /\ last' = [op |-> "inflate"]
    /\ UNCHANGED restOfGeometry

\* rect = rect.deflate(amount)
GeometryDeflate(t) ==
    /\ geometry.subject = "rectangle"
    /\ Len(geometry.ops) < MaxOps
    /\ LET rect   == geometry.trail[Len(geometry.trail)]
           amount == GeoAmount(geometry.floats, t)
       IN /\ geometry.floats => inflate_listed(rect, amount)
          /\ geometry' = [geometry EXCEPT
                !.trail = Append(@, IF geometry.floats THEN deflate_float(rect, amount)
                                    ELSE deflate(rect, amount)),
                !.ops   = Append(@, [name |-> "deflate", amount |-> amount])]
    /\ last' = [op |-> "deflate"]
    /\ UNCHANGED restOfGeometry

\* arrow.hits_baloon(balloon), for Arrow(position=arrow) and
\* Balloon(position=balloon).
GeometryHits ==
    /\ geometry.subject = "hit"
    /\ geometry.result = <<>>
    /\ LET arrow   == NewId(EmptyHeap)
           h1      == alloc(EmptyHeap, Arrow(TRUE, geometry.arrow, up, "blue"))
           balloon == NewId(h1)
           h2      == alloc(h1, Balloon(geometry.balloon))
       IN geometry' = [geometry EXCEPT !.result = <<hits_baloon(h2, arrow, balloon)>>]
    /\ last' = [op |-> "hits_baloon"]
    /\ UNCHANGED restOfGeometry

NextGeometry ==
    \/ GeometryContains
    \/ \E t \in -MaxAmount..MaxAmount : GeometryInflate(t)
    \/ \E t \in -MaxAmount..MaxAmount : GeometryDeflate(t)
    \/ GeometryHits

SpecGeometry == InitGeometry /\ [][NextGeometry]_vars

(***************************************************************************)
(* The input harness: one InputHandler that receives events and updates.   *)
(* The keyboard sends a key-up only for a key that is down and a key-down  *)
(* only for a key that is up.                                              *)
(***************************************************************************)
TurnKeys == {KEY_LEFT, KEY_RIGHT}

\* Axis values in thousandths: full left, the edge of the dead zone (0.01),
\* slightly right (0.05).
AxisValues == {-1000, 10, 50}

InputEvents ==
    {create_event_keydown(k) : k \in TurnKeys \cup {KEY_SPACE}}
        \cup {create_event_keyup(k) : k \in TurnKeys \cup {KEY_SPACE}}
        \cup {create_event_joystick_down(XBOX_A, 0)}
        \cup {create_event_joystick_motion(0, v, 0) : v \in AxisValues}
        \cup {create_event_joystick_motion(0, 500, 1)}
        \cup {create_event_joystick_motion(1, 500, 0)}

\* The input source of a turn event (a key-down or key-up of a turn key, a
\* motion of axis 0 of a joystick), None for any other event.
turn_source(e) ==
    IF e.type \in {"KEYDOWN", "KEYUP"} /\ e.key \in TurnKeys THEN "keyboard"
    ELSE IF e.type = "JOYAXISMOTION" /\ e.axis = 0
    THEN "joystick" \o ToString(e.instance_id)
    ELSE None

InitInput ==
    /\ input_handler = InputHandler
    /\ heap = EmptyHeap
    /\ bow = None
    /\ shot = <<>>
    /\ balloons = None
    /\ bows = <<>>
    /\ flying_arrows = <<>>
    /\ score = 0
    /\ NoStart
    /\ fed = <<>>
    /\ popped = 0
    /\ Idle
    /\ NoLoop
    /\ last = NoOp

restOfInput == <<heap, bowVars, balloons, bows, flying_arrows, score, startVars,
                 histVars, group, loop, startup, geometry>>

\* input_handler.event(e)
InputEvent(e) ==
    /\ shoot_source(e) # None => Len(input_handler.shots_triggered) < MaxTriggered
    /\ (e.type = "KEYDOWN" /\ e.key \in TurnKeys) => e.key \notin keys_down
    /\ (e.type = "KEYUP" /\ e.key \in TurnKeys) => e.key \in keys_down
    /\ input_handler' = ih_event(input_handler, e)
    /\ keys_down' = IF e.type = "KEYDOWN" /\ e.key \in TurnKeys
                    THEN keys_down \cup {e.key}
                    ELSE IF e.type = "KEYUP" /\ e.key \in TurnKeys
                    THEN keys_down \ {e.key}
                    ELSE keys_down
    /\ turned' = IF turn_source(e) # None /\ turn_source(e) \notin Range(turned)
                 THEN Append(turned, turn_source(e))
                 ELSE turned
    /\ last' = [op |-> "event", event |-> e, before |-> input_handler.turn_factors]
    /\ UNCHANGED restOfInput

\* input_handler.update(dt)
InputUpdate(dt) ==
    /\ input_handler' = ih_update(input_handler, dt)
    /\ last' = [op |-> "update", dt |-> dt, before |-> input_handler.turn_factors]
    /\ UNCHANGED <<restOfInput, keys_down, turned>>

NextInput ==
    \/ \E e \in InputEvents : InputEvent(e)
    \/ \E dt \in DtValues : InputUpdate(dt)

SpecInput == InitInput /\ [][NextInput]_vars

(***************************************************************************)
(* The sprite group harness: one SpriteGroup or one ParticleEffects, whose *)
(* owner adds and removes sprites, updates and draws it, and keeps what    *)
(* get_sprites() returned.  group is [heap, top: the group, held: what the *)
(* owner keeps of get_sprites() (the list returned last and the items it   *)
(* had then), made: how many sprites were added].                          *)
(***************************************************************************)
GroupClasses == {"SpriteGroup", "ParticleEffects"}

\* What the owner adds: to a SpriteGroup a TestSprite or a SpriteGroup that
\* holds one TestSprite; to a ParticleEffects a particle that is dead
\* (radius 3) or alive (radius 200).
SpriteKinds(class) ==
    IF class = "SpriteGroup" THEN {"TestSprite", "SpriteGroup"}
    ELSE {"dead particle", "live particle"}

\* The constructor call for a sprite of the kind.  [heap, result]
make_sprite(o, kind) ==
    IF kind = "TestSprite" THEN [heap |-> alloc(o, TestSprite), result |-> NewId(o)]
    ELSE IF kind = "dead particle"
    THEN [heap |-> alloc(o, BalloonParticle(Point(10, 10), 3)), result |-> NewId(o)]
    ELSE IF kind = "live particle"
    THEN [heap |-> alloc(o, BalloonParticle(Point(10, 10), 200)), result |-> NewId(o)]
    ELSE LET child == NewId(o)
             inner == group_init(alloc(o, TestSprite), "SpriteGroup")
         IN [heap   |-> group_add(inner.heap, inner.result, child).heap,
             result |-> inner.result]

\* The list of the group under test, as it is now.
Items == group.heap[group.heap[group.top].sprites].items

InitSprites ==
    /\ \E class \in GroupClasses :
          LET r == group_init(EmptyHeap, class)
          IN group = [heap |-> r.heap, top |-> r.result, held |-> <<>>, made |-> 0]
    /\ heap = EmptyHeap
    /\ bow = None
    /\ shot = <<>>
    /\ balloons = None
    /\ NoScene
    /\ keys_down = {}
    /\ turned = <<>>
    /\ startup = None
    /\ geometry = None
    /\ NoLoop
    /\ last = NoOp

restOfSprites == <<heap, bowVars, balloons, sceneVars, startVars, histVars,
                   keys_down, turned, startup, geometry, loop>>

\* x = make(); y = group.add(x)
GroupAdd(kind) ==
    /\ group.made < MaxSprites
    /\ \E made \in {make_sprite(group.heap, kind)} :
       \E r \in {group_add(made.heap, group.top, made.result)} :
          /\ group' = [group EXCEPT !.heap = r.heap, !.made = @ + 1]
          /\ last' = [op |-> "add", sprite |-> made.result, returned |-> r.result,
                      pre |-> Items]
    /\ UNCHANGED restOfSprites

\* held = group.get_sprites()
GroupGetSprites ==
    /\ group' = [group EXCEPT
                    !.held = <<[list |-> group_get_sprites(group.heap, group.top),
                                seen |-> Items]>>]
    /\ last' = [op |-> "get_sprites"]
    /\ UNCHANGED restOfSprites

\* group.remove(sprite)
GroupRemove(sprite) ==
    /\ group' = [group EXCEPT !.heap = group_remove(@, group.top, sprite)]
    /\ last' = [op |-> "remove", sprite |-> sprite, pre |-> Items]
    /\ UNCHANGED restOfSprites

\* group.update(dt)
GroupUpdate(dt) ==
    /\ \E r \in {IF group.heap[group.top].class = "ParticleEffects"
                 THEN particle_effects_update(group.heap, group.top, dt)
                 ELSE group_update(group.heap, group.top, dt)
                         @@ [visited |-> <<>>]} :
          /\ group' = [group EXCEPT !.heap = r.heap]
          /\ last' = [op |-> "update", args |-> <<dt>>, pre |-> Items,
                      before |-> group.heap, calls |-> r.calls,
                      visited |-> r.visited]
    /\ UNCHANGED restOfSprites

\* group.draw(loop)
GroupDraw ==
    /\ last' = [op |-> "draw", args |-> <<"loop">>, pre |-> Items,
                before |-> group.heap,
                calls |-> group_draw(group.heap, group.top, "loop")]
    /\ UNCHANGED <<group, restOfSprites>>

NextSprites ==
    \/ \E kind \in SpriteKinds(group.heap[group.top].class) : GroupAdd(kind)
    \/ GroupGetSprites
    \/ \E sprite \in Range(Items) : GroupRemove(sprite)
    \/ \E dt \in DtValues : GroupUpdate(dt)
    \/ GroupDraw

SpecSprites == InitSprites /\ [][NextSprites]_vars

(***************************************************************************)
(* Claims about the gameplay scene (checked under SpecGameplay).  After a  *)
(* frame, last holds the scene before update was called (pre), the scene   *)
(* the loop over the flying arrows started from (mid) and the scene it     *)
(* left (post), all three with the identities of that call.                *)
(***************************************************************************)
RemovedBalloons ==
    Range(last.mid.balloons.sprites) \ Range(last.post.balloons.sprites)

RemovedArrows ==
    Range(last.mid.flying_arrows) \ Range(last.post.flying_arrows)

\* C1: in GameplayScene.update every balloon that leaves in the loop over
\* the flying arrows leaves together with an arrow of its own that was inside
\* it, the score grows by one for each such balloon, an arrow that stays is
\* inside no balloon that stays, and over the whole game the score is the
\* number of balloons removed by hits.
C1_HitRemovesArrowAndBalloonAndScores ==
    last.op = "update" =>
        /\ score = last.pre.score + Cardinality(RemovedBalloons)
        /\ \E f \in [RemovedBalloons -> RemovedArrows] :
              /\ \A b1, b2 \in RemovedBalloons : f[b1] = f[b2] => b1 = b2
              /\ \A b \in RemovedBalloons : hits_baloon(last.mid.heap, f[b], b)
        /\ \A a \in RemovedArrows :
              \/ arrow_is_outside_of(last.mid.heap, a, last.mid.balloons.screen_area)
              \/ \E b \in RemovedBalloons : hits_baloon(last.mid.heap, a, b)
        /\ \A a \in Range(last.post.flying_arrows) :
              \A b \in Range(last.post.balloons.sprites) :
                  ~hits_baloon(last.mid.heap, a, b)
        /\ score = popped

\* C1 witness: an update in which an arrow shot from the bow hit a balloon.
C1_Witness ==
    /\ last.op = "update"
    /\ score = last.pre.score + 1
    /\ \E a \in RemovedArrows, b \in RemovedBalloons :
          /\ last.mid.heap[a].shooting
          /\ hits_baloon(last.mid.heap, a, b)

\* The flying arrows and the balloons that were present before the call are
\* all still there after it, and the score is what it was.
NothingRemoved ==
    /\ Range(last.pre.flying_arrows) \subseteq Range(last.post.flying_arrows)
    /\ Range(last.pre.balloons.sprites) \subseteq Range(last.post.balloons.sprites)
    /\ score = last.pre.score

\* Before the call no flying arrow is inside a balloon and every flying
\* arrow is inside screen_area.inflate(20).
ArrowsClear ==
    \A a \in Range(last.pre.flying_arrows) :
        /\ contains(inflate(last.pre.balloons.screen_area, 20),
                    last.pre.heap[a].position)
        /\ \A b \in Range(last.pre.balloons.sprites) :
              ~hits_baloon(last.pre.heap, a, b)

\* The bows that have a shot pending before the call.
PendingBows ==
    {bow_for_player(last.pre.bows, last.pre.pending[i]) :
        i \in 1..Len(last.pre.pending)}

\* C2 as claimed: update(0), called when no flying arrow is inside a balloon
\* and every flying arrow is inside screen_area.inflate(20), removes no
\* flying arrow and no balloon that was present and leaves the score alone.
C2_QuietUpdateRemovesNothing ==
    (last.op = "update" /\ last.dt = 0 /\ ArrowsClear) => NothingRemoved

\* C2 amended: the same holds when, in addition, no bow with a pending shot
\* is inside a balloon, every balloon is inside screen_area.inflate(2 *
\* radius), and either the balloons are at least number_of_balloons or every
\* flying arrow and every bow with a pending shot is more than a balloon's
\* radius away from the top edge, where balloons spawn.
C2_QuietUpdateRemovesNothingAmended ==
    ( /\ last.op = "update"
      /\ last.dt = 0
      /\ ArrowsClear
      /\ \A w \in PendingBows :
            /\ contains(inflate(last.pre.balloons.screen_area, 20),
                        last.pre.heap[w].position)
            /\ \A b \in Range(last.pre.balloons.sprites) :
                  ~hits_baloon(last.pre.heap, w, b)
      /\ \A b \in Range(last.pre.balloons.sprites) :
            ~balloon_is_outside_of(last.pre.heap, b, last.pre.balloons.screen_area)
      /\ \/ Len(last.pre.balloons.sprites) >= last.pre.balloons.number_of_balloons
         \/ \A a \in Range(last.pre.flying_arrows) \cup PendingBows :
               Abs(last.pre.heap[a].position.y
                     - last.pre.balloons.screen_area.topleft.y) > BalloonRadius )
    => NothingRemoved

\* C2 witness: update(0) was called with a shot pending on a scene that held
\* a flying arrow and fewer balloons than number_of_balloons, all as the
\* amended claim requires, and nothing was removed.
C2_Witness ==
    /\ last.op = "update"
    /\ last.dt = 0
    /\ ArrowsClear
    /\ last.pre.flying_arrows # <<>>
    /\ last.pre.balloons.sprites # <<>>
    /\ Len(last.pre.balloons.sprites) < last.pre.balloons.number_of_balloons
    /\ last.pre.pending # <<>>
    /\ \A w \in PendingBows :
          \A b \in Range(last.pre.balloons.sprites) : ~hits_baloon(last.pre.heap, w, b)
    /\ \A b \in Range(last.pre.balloons.sprites) :
          ~balloon_is_outside_of(last.pre.heap, b, last.pre.balloons.screen_area)
    /\ \A a \in Range(last.pre.flying_arrows) \cup PendingBows :
          Abs(last.pre.heap[a].position.y
                - last.pre.balloons.screen_area.topleft.y) > BalloonRadius
    /\ NothingRemoved

\* C3: after GameplayScene.update no flying arrow of the scene has its
\* position inside a balloon of the scene.
C3_NoArrowLeftInsideBalloon ==
    last.op = "update" =>
        \A a \in Range(flying_arrows) :
            \A b \in Range(balloons.sprites) : ~hits_baloon(heap, a, b)

\* C3 witness: two arrows were inside a balloon when the loop started; the
\* first took the balloon with it, the other is still flying.
C3_Witness ==
    /\ last.op = "update"
    /\ \E a \in Range(last.post.flying_arrows), b \in RemovedBalloons :
          hits_baloon(last.mid.heap, a, b)
    /\ flying_arrows # <<>>
    /\ balloons.sprites # <<>>

\* C4: the flying arrows an update adds are as many as the shoot events fed
\* since the previous update, they are added behind the arrows already
\* flying, get_shots reports the sources of those events in event order, and
\* without such an event no arrow is added and get_shots is empty.
C4_ShootingIsEdgeTriggered ==
    last.op = "update" =>
        /\ Len(last.mid.flying_arrows) = Len(last.pre.flying_arrows) + Len(fed)
        /\ SubSeq(last.mid.flying_arrows, 1, Len(last.pre.flying_arrows))
              = last.pre.flying_arrows
        /\ get_shots(input_handler) = fed
        /\ fed = <<>> =>
              /\ last.mid.flying_arrows = last.pre.flying_arrows
              /\ get_shots(input_handler) = <<>>

\* C4 witness: the joystick and then the keyboard shot in one frame and the
\* update added two arrows.
C4_Witness ==
    /\ last.op = "update"
    /\ fed = <<"joystick0", "keyboard">>
    /\ get_shots(input_handler) = fed
    /\ Len(last.mid.flying_arrows) = Len(last.pre.flying_arrows) + 2

(***************************************************************************)
(* Claims about the start scene (checked under SpecStart) and about the    *)
(* game (checked under SpecGame).  fed holds the sources of the shoot      *)
(* events of the frame, in event order.                                    *)
(***************************************************************************)
\* Some shot of the sequence comes from a source that was pending when it
\* shot: pending before the frame, or through an earlier shot of the frame.
ShootsAgain(pending, shots) ==
    \E i \in 1..Len(shots) :
        shots[i] \in Range(pending) \cup {shots[j] : j \in 1..(i - 1)}

\* The sources of the sequence that were not pending, each once, in the
\* order of their first shot.
RECURSIVE FirstShots(_, _)
FirstShots(pending, shots) ==
    IF shots = <<>> THEN <<>>
    ELSE IF Head(shots) \in Range(pending) THEN FirstShots(pending, Tail(shots))
    ELSE <<Head(shots)>> \o FirstShots(Append(pending, Head(shots)), Tail(shots))

\* C9: get_players() is None at the start and stays None until a source
\* that is already pending shoots again; a first shot only appends its
\* source to the pending list; and once promoted the player list is the
\* pending list.
C9_SecondShotPromotesPendingList ==
    /\ last.op = "none" => (players = None /\ pending_players = <<>>)
    /\ last.op = "start_update" =>
          /\ (players = None) <=>
                (/\ last.pre.players = None
                 /\ ~ShootsAgain(last.pre.pending_players, fed))
          /\ pending_players =
                last.pre.pending_players \o FirstShots(last.pre.pending_players, fed)
          /\ players # None =>
                (players = PendingList /\ get_players(StartSceneNow) = pending_players)

\* C9 witness: with one source pending, another source shot for the first
\* time and then the pending one shot again, in the same frame: the players
\* are both.
C9_Witness ==
    /\ last.op = "start_update"
    /\ last.pre.players = None
    /\ last.pre.pending_players = <<"joystick0">>
    /\ fed = <<"joystick1", "joystick0">>
    /\ players = PendingList
    /\ get_players(StartSceneNow) = <<"joystick0", "joystick1">>

\* C10: the game starts on a StartScene; an update of the start scene ends
\* on a GameplayScene exactly when it left the start scene with a non-empty
\* player list, and that scene has one bow per player of the list, so no
\* frame ends on a start scene that has players; and a GameplayScene is
\* never followed by a StartScene.
C10_StartThenGameplayForGood ==
    /\ [](/\ active_scene \in {"StartScene", "GameplayScene"}
          /\ last.op = "none" => active_scene = "StartScene"
          /\ active_scene = "StartScene" => players = None
          /\ last.op = "game_update" =>
                /\ last.was = "StartScene"
                /\ (active_scene = "GameplayScene") <=>
                      (/\ last.start.players # None
                       /\ last.start.pending_players # <<>>)
                /\ active_scene = "GameplayScene" =>
                      [k \in 1..Len(bows) |-> bows[k].player]
                          = last.start.pending_players)
    /\ [][active_scene = "GameplayScene" => active_scene' = "GameplayScene"]_vars

\* C10 witness: an update of the start scene has just put a GameplayScene
\* of two players in its place.
C10_Witness ==
    /\ last.op = "game_update"
    /\ last.was = "StartScene"
    /\ active_scene = "GameplayScene"
    /\ Len(bows) = 2

(***************************************************************************)
(* Claims about the balloon population (checked under SpecBalloons).       *)
(***************************************************************************)
\* C8 as claimed: after every Balloons.update the number of live balloons
\* equals number_of_balloons, whatever the collection held before.
C8_PopulationEqualsTarget ==
    last.op = "balloons_update"
        => Len(balloons.sprites) = balloons.number_of_balloons

\* C8 as amended: after every Balloons.update the number of live balloons
\* is never below number_of_balloons, and it equals number_of_balloons
\* whenever the collection held at most that many balloons before the call.
C8_PopulationReachesTarget ==
    last.op = "balloons_update"
        => /\ Len(balloons.sprites) >= balloons.number_of_balloons
           /\ last.held <= balloons.number_of_balloons
                  => Len(balloons.sprites) = balloons.number_of_balloons

\* C8 witness: an update that both removed a balloon that had left the
\* area and spawned balloons up to the target.
C8_Witness ==
    /\ last.op = "balloons_update"
    /\ last.held = 1
    /\ balloons.number_of_balloons = 2
    /\ Len(balloons.sprites) = 2
    /\ \A i \in 1..2 : heap[balloons.sprites[i]].position.y = 0

(***************************************************************************)
(* Claims about the bow (checked under SpecBow).                           *)
(***************************************************************************)
\* C5: after any sequence of Bow.turn calls with any deltas, starting from
\* Angle.up(), the y-component of the unit vector of the bow's aim angle,
\* as to_unit_point computes it, is strictly negative.
C5_AimAlwaysUpward == unit_y_sign(get_angle(heap, bow)) < 0

\* C5 witness: turns have been accepted and have led the bow away from
\* Angle.up(), to the leftmost direction it accepts.
C5_Witness ==
    /\ last.op = "turn"
    /\ ~last.rejected
    /\ get_angle(heap, bow) = -180

\* C6: a turn whose proposed angle has a unit vector with y >= 0 leaves
\* the angle exactly as it was, and the turn after a rejected turn starts
\* from that unchanged angle: its outcome is the outcome of turning the
\* angle held before the rejected turn by the new delta alone.
C6_RejectedTurnIsNoOp ==
    /\ (last.op = "turn" /\ last.rejected)
            => get_angle(heap, bow) = last.before
    /\ (last.op = "turn" /\ last.after_rejected)
            => /\ last.before = last.origin
               /\ get_angle(heap, bow) =
                      IF unit_y_sign(last.origin + last.delta) < 0
                      THEN last.origin + last.delta
                      ELSE last.origin

\* C6 witness: a turn rejected from an angle other than Angle.up(), itself
\* following a rejected turn.
C6_Witness ==
    /\ last.op = "turn"
    /\ last.rejected
    /\ last.after_rejected
    /\ last.before # up

\* C7: Bow.shoot returns a new arrow with shooting = true that copies the
\* nocked arrow's position, angle and color at that moment; the nocked
\* arrow is never marked shooting; and no later step (a turn of the bow in
\* particular) changes the angle of an arrow already shot.
C7_ShotArrowIsIndependentCopy ==
    /\ [](/\ ~heap[bow].shooting
          /\ \A i \in 1..Len(shot) : shot[i] # bow /\ heap[shot[i]].shooting
          /\ last.op = "shoot" =>
                heap[shot[Len(shot)]] = [last.before EXCEPT !.shooting = TRUE])
    /\ [][\A i \in 1..Len(shot) :
             heap'[shot[i]].angle = heap[shot[i]].angle]_vars

\* C7 witness: an arrow was shot, and a later accepted turn has given the
\* bow an angle that differs from the angle of the flying arrow.
C7_Witness ==
    /\ Len(shot) > 0
    /\ last.op = "turn"
    /\ ~last.rejected
    /\ get_angle(heap, bow) # get_angle(heap, shot[1])
    /\ get_angle(heap, shot[1]) # up

(***************************************************************************)
(* Claims about the game loop (checked under SpecLoop).  loop.frame is     *)
(* what the latest iteration of run() did, in order.                       *)
(***************************************************************************)
\* Where ExitGameLoop was raised in the calls (0: nowhere).
RaisedAt(calls) ==
    IF \E i \in 1..Len(calls) : calls[i] = RaiseExit
    THEN CHOOSE i \in 1..Len(calls) :
            calls[i] = RaiseExit /\ \A j \in 1..(i - 1) : calls[j] # RaiseExit
    ELSE 0

\* The events of the sequence before its first user-closed-window event.
RECURSIVE BeforeClose(_)
BeforeClose(events) ==
    IF events = <<>> \/ is_user_closed_window(Head(events)) THEN <<>>
    ELSE <<Head(events)>> \o BeforeClose(Tail(events))

\* C11: a user-closed-window event handed to GameScene.event raises
\* ExitGameLoop at once, in the start scene and in the gameplay scene alike,
\* and the active scene (its input handler) never receives that event: the
\* input handler is as the events before it left it.
C11_CloseWindowRaisesAndIsNotForwarded ==
    loop.game = BalloonShooter =>
        /\ \A i \in 1..Len(loop.frame) :
              /\ (loop.frame[i].call = "game_scene.event"
                    /\ is_user_closed_window(loop.frame[i].event))
                 => (i < Len(loop.frame) /\ loop.frame[i + 1] = RaiseExit)
              /\ loop.frame[i].call = "active_scene.event"
                 => ~is_user_closed_window(loop.frame[i].event)
        /\ last.op = "exit" =>
              /\ RaisedAt(loop.frame) > 0
              /\ input_handler =
                    events_all(last.input_handler, BeforeClose(game_events(last.events)))

\* C11 witness: the window is closed while the gameplay scene is active, in
\* a batch whose first event did reach the scene.
C11_Witness ==
    /\ loop.game = BalloonShooter
    /\ loop.pc = "returned"
    /\ active_scene = "GameplayScene"
    /\ last.op = "exit"
    /\ Len(last.events) = 3
    /\ is_keydown(last.events[1], KEY_SPACE)
    /\ input_handler.shots_triggered = <<"keyboard">>

\* C12: a run() that ExitGameLoop ended has notified GAMELOOP_INIT exactly
\* once, as its first notification, and GAMELOOP_QUIT exactly once, as its
\* last notification; it has called the backend's quit once, after that
\* notification, and has returned without the exception leaving it.
C12_RunInitsAndQuitsOnce ==
    loop.pc = "returned" =>
        /\ loop.first = "GAMELOOP_INIT"
        /\ loop.inits = 1
        /\ loop.latest = "GAMELOOP_QUIT"
        /\ loop.quits = 1
        /\ loop.backend_quits = 1
        /\ ~loop.propagated
        /\ Len(loop.frame) >= 2
        /\ loop.frame[Len(loop.frame)] = Call("pygame.quit")
        /\ loop.frame[Len(loop.frame) - 1].call = "notify"

\* C12 witness: run(BalloonShooter) has returned after frames that drew the
\* gameplay scene.
C12_Witness ==
    /\ loop.pc = "returned"
    /\ loop.game = BalloonShooter
    /\ active_scene = "GameplayScene"
    /\ Len(flying_arrows) > 0

\* C13: in the iteration in which ExitGameLoop is raised (by game.event or
\* by game.tick), run() does nothing after the raise but notify
\* GAMELOOP_QUIT and quit the backend: no later event of the batch is
\* dispatched, tick is not called (again), nothing is cleared or drawn and
\* the display is not flipped.
C13_NothingAfterExitIsRaised ==
    loop.pc = "returned" =>
        /\ RaisedAt(loop.frame) > 0
        /\ SubSeq(loop.frame, RaisedAt(loop.frame) + 1, Len(loop.frame))
              = <<Notify([name |-> "GAMELOOP_QUIT"]), Call("pygame.quit")>>
        /\ \A i \in 1..Len(loop.frame) :
              loop.frame[i].call \notin {"display.flip", "clock.tick"}
        /\ Cardinality({i \in 1..Len(loop.frame) :
                            loop.frame[i].call = "game.tick"}) <= 1

\* C13 witness: the batch of the last iteration held events behind the one
\* that raised.
C13_Witness ==
    /\ loop.pc = "returned"
    /\ last.op = "exit"
    /\ Len(last.events) = 3
    /\ is_user_closed_window(last.events[1])
    /\ loop.game = BalloonShooter

(***************************************************************************)
(* Claims about SpriteGroup (checked under SpecSprites).                   *)
(***************************************************************************)
\* The sprites a call on the list object l reaches: its items and, for an
\* item that is a group, what a call on that group reaches.
RECURSIVE Contained(_, _)
Contained(o, l) ==
    Range(o[l].items)
        \cup UNION {Contained(o, o[s].sprites) :
                        s \in {x \in Range(o[l].items) : o[x].class = "SpriteGroup"}}

\* Where in the calls the sprite was called (the first place).
CallOf(calls, sprite) == CHOOSE i \in 1..Len(calls) : calls[i].sprite = sprite

C17_GetSpritesIsSnapshot ==
    \A i \in 1..Len(group.held) :
        group.heap[group.held[i].list].items = group.held[i].seen

\* C18: add appends the sprite at the end of the list and returns that same
\* sprite; update and draw call every sprite of the group exactly once with
\* the arguments they were given, in the order of the list, and a sprite
\* that is itself a group passes the call on to each of its sprites, right
\* after its own call.
C18_AddAppendsAndCallsAreForwarded ==
    /\ last.op = "add" =>
          /\ Items = Append(last.pre, last.sprite)
          /\ last.returned = last.sprite
    /\ last.op \in {"update", "draw"} =>
          LET o     == last.before
              l     == o[group.top].sprites
              calls == last.calls
          IN /\ o[l].items = last.pre
             /\ Len(calls) = Cardinality(Contained(o, l))
             /\ \A i \in 1..Len(calls) :
                   /\ calls[i].sprite \in Contained(o, l)
                   /\ calls[i].method = last.op
                   /\ calls[i].args = last.args
                   /\ \A j \in 1..Len(calls) :
                         calls[j].sprite = calls[i].sprite => j = i
             /\ \A j, k \in 1..Len(last.pre) :
                   j < k => CallOf(calls, last.pre[j]) < CallOf(calls, last.pre[k])
             /\ \A s \in Range(last.pre) :
                   o[s].class = "SpriteGroup" =>
                      \A n \in 1..Len(o[o[s].sprites].items) :
                         calls[CallOf(calls, s) + n].sprite = o[o[s].sprites].items[n]

\* C18 witness: an update with dt > 0 of a group of three sprites, the
\* second of which is a group with a sprite of its own.
C18_Witness ==
    /\ last.op = "update"
    /\ last.args = <<1250>>
    /\ Len(last.pre) = 3
    /\ group.heap[last.pre[2]].class = "SpriteGroup"
    /\ group.heap[last.pre[3]].class = "TestSprite"
    /\ Len(last.calls) = 4

(***************************************************************************)
(* More claims about the gameplay scene (checked under SpecGameplay) and   *)
(* about the balloon population (checked under SpecBalloons).              *)
(***************************************************************************)
\* C15: when GameplayScene.update has returned, every arrow of the flying
\* arrows is inside screen_area.inflate(20), however many arrows flew and
\* whatever dt was.
C15_NoFlyingArrowOutsideAfterUpdate ==
    last.op = "update" =>
        \A i \in 1..Len(flying_arrows) :
            contains(inflate(screen_area, 20), heap[flying_arrows[i]].position)

\* C15 witness: an update with dt > 0 in which two arrows, one behind the
\* other in the list, left the inflated screen and were both removed.
C15_Witness ==
    /\ last.op = "update"
    /\ last.dt > 0
    /\ Len(last.mid.flying_arrows) = 2
    /\ \A i \in 1..2 :
          ~contains(inflate(screen_area, 20),
                    last.mid.heap[last.mid.flying_arrows[i]].position)
    /\ flying_arrows = <<>>

\* C16: when Balloons.update has returned, every balloon of the group is
\* inside screen_area.inflate(2 * radius), whatever balloons the group held
\* before the call.
C16_NoBalloonOutsideAfterUpdate ==
    last.op = "balloons_update" =>
        \A i \in 1..Len(balloons.sprites) :
            contains(inflate(balloons.screen_area, 2 * heap[balloons.sprites[i]].radius),
                     heap[balloons.sprites[i]].position)

\* C16 witness: an update of a group that held two balloons and spawns
\* none has left the group empty: both were outside and were removed.
C16_Witness ==
    /\ last.op = "balloons_update"
    /\ last.held = 2
    /\ balloons.number_of_balloons = 0
    /\ balloons.sprites = <<>>

(***************************************************************************)
(* Claims about the input handler (checked under SpecInput).               *)
(***************************************************************************)
\* The value the dict holds for the key, as a one-element sequence; Absent
\* when it has no such key.
Absent == <<>>

dict_get(d, k) ==
    IF dict_has(d, k) THEN <<d[CHOOSE i \in 1..Len(d) : d[i].key = k].value>> ELSE Absent

Keys(d) == [i \in 1..Len(d) |-> d[i].key]

\* C19, as stated: while the turn-left key is the one turn key that is down
\* the keyboard turn factor is -1, while the turn-right key is the one that
\* is down it is +1, whatever other keyboard events came in between.
C19_TurnKeyLatchesUntilItsKeyUp ==
    /\ keys_down = {KEY_LEFT} =>
          dict_get(input_handler.turn_factors, "keyboard") = <<-1000>>
    /\ keys_down = {KEY_RIGHT} =>
          dict_get(input_handler.turn_factors, "keyboard") = <<1000>>

\* C19, amended: the keyboard has one turn factor, set by the latest event
\* of a turn key: a key-down of the turn-left key sets it to -1, a key-down
\* of the turn-right key to +1, a key-up of either turn key to 0.  No other
\* event and no update changes it, every update reports the angle of that
\* factor, and it is 0 whenever no turn key is down.
C19_TurnKeyLatchesUntilNextTurnKeyEvent ==
    LET factor == dict_get(input_handler.turn_factors, "keyboard") IN
    /\ last.op = "event" =>
          factor = IF is_keydown(last.event, KEY_LEFT) THEN <<-1000>>
                   ELSE IF is_keydown(last.event, KEY_RIGHT) THEN <<1000>>
                   ELSE IF is_keyup(last.event, KEY_LEFT) \/ is_keyup(last.event, KEY_RIGHT)
                   THEN <<0>>
                   ELSE dict_get(last.before, "keyboard")
    /\ last.op = "update" =>
          /\ factor = dict_get(last.before, "keyboard")
          /\ factor # Absent =>
                dict_get(get_turn_angles(input_handler), "keyboard")
                    = <<fraction_of_whole(factor[1] * last.dt, 1000 * TurnSpeedInverse)>>
    /\ keys_down = {} => factor \in {<<0>>, Absent}

\* C19 witness: the turn-left key went down, a shot and a joystick motion
\* followed, and an update with dt > 0 reports the keyboard turning left.
C19_Witness ==
    /\ last.op = "update"
    /\ last.dt > 0
    /\ keys_down = {KEY_LEFT}
    /\ turned = <<"keyboard", "joystick0">>
    /\ get_shots(input_handler) = <<"keyboard">>
    /\ dict_get(get_turn_angles(input_handler), "keyboard") = <<-180>>

\* C20: an event changes the turn factor of no source but its own, no
\* source is ever dropped, the handler holds one turn factor for every
\* source that has sent a turn event, and every update reports one angle
\* for each of these sources, under the source's id.
C20_SourcesAreIndependent ==
    LET factors == input_handler.turn_factors IN
    /\ Keys(factors) = turned
    /\ last.op = "event" =>
          /\ Len(factors) >= Len(last.before)
          /\ \A i \in 1..Len(last.before) :
                /\ factors[i].key = last.before[i].key
                /\ last.before[i].key # turn_source(last.event)
                   => factors[i] = last.before[i]
    /\ last.op = "update" =>
          /\ factors = last.before
          /\ Keys(get_turn_angles(input_handler)) = turned
          /\ \A i \in 1..Len(factors) :
                get_turn_angles(input_handler)[i].value
                    = fraction_of_whole(factors[i].value * last.dt, 1000 * TurnSpeedInverse)

\* C20 witness: two joysticks and the keyboard have turned, differently, and
\* an update with dt > 0 reports the three of them.
C20_Witness ==
    /\ last.op = "update"
    /\ last.dt > 0
    /\ Len(turned) = 3
    /\ dict_get(input_handler.turn_factors, "joystick0") = <<-1000>>
    /\ dict_get(input_handler.turn_factors, "joystick1") = <<500>>
    /\ dict_get(input_handler.turn_factors, "keyboard") = <<1000>>

\* C25: a motion of axis 0 of a joystick sets the turn factor of that
\* joystick to the value of the event when |value| > 0.01 and to 0 when it
\* is not; a motion of another axis leaves every turn factor as it was.
C25_AxisZeroSetsFactorWithDeadZone ==
    (last.op = "event" /\ last.event.type = "JOYAXISMOTION") =>
        IF last.event.axis = 0
        THEN dict_get(input_handler.turn_factors,
                      "joystick" \o ToString(last.event.instance_id))
                 = <<IF last.event.value > 10 \/ last.event.value < -10
                     THEN last.event.value ELSE 0>>
        ELSE input_handler.turn_factors = last.before

\* C25 witness: a joystick that was turning full left reports exactly 0.01
\* on axis 0 and its turn factor is 0.
C25_Witness ==
    /\ last.op = "event"
    /\ last.event = create_event_joystick_motion(0, 10, 0)
    /\ dict_get(last.before, "joystick0") = <<-1000>>
    /\ dict_get(input_handler.turn_factors, "joystick0") = <<0>>

(***************************************************************************)
(* More claims about the gameplay scene (checked under SpecGameplay).      *)
(***************************************************************************)
\* The balloons of the sequence whose circle contains the position, by index.
Containing(h, sprites, position) ==
    {i \in 1..Len(sprites) : balloon_contains(h, sprites[i], position)}

\* The flying arrows the loop of update started from that were inside a
\* balloon then.
HittingArrows ==
    {a \in Range(last.mid.flying_arrows) :
        Containing(last.mid.heap, last.mid.balloons.sprites,
                   last.mid.heap[a].position) # {}}

\* C21: get_balloon_hit_by_arrow returns nothing when no balloon contains
\* the arrow's position and else the balloon of least index that does; an
\* update removes no more balloons and scores no more points than it has
\* arrows inside a balloon, and one with a single flying arrow removes the
\* first balloon around that arrow and no other.
C21_FirstBalloonInOrderAndOnePerArrow ==
    last.op = "update" =>
        /\ \A a \in Range(last.mid.flying_arrows) :
              LET sprites == last.mid.balloons.sprites
                  found   == Containing(last.mid.heap, sprites, last.mid.heap[a].position)
                  hit     == get_balloon_hit_by_arrow(last.mid.heap, last.mid.balloons, a)
              IN /\ found = {} => hit = NoSprite
                 /\ found # {} =>
                       /\ hit \in {sprites[i] : i \in found}
                       /\ \A i \in found : index_of(sprites, hit) <= i
                 /\ Len(last.mid.flying_arrows) = 1 =>
                       RemovedBalloons =
                           {sprites[i] : i \in {j \in found : \A l \in found : j <= l}}
        /\ Cardinality(RemovedBalloons) <= Cardinality(HittingArrows)
        /\ score - last.pre.score <= Cardinality(HittingArrows)

\* C21 witness: one arrow was inside three balloons at once; the update took
\* the first of them and scored one point.
C21_Witness ==
    /\ last.op = "update"
    /\ Len(last.mid.flying_arrows) = 1
    /\ \E a \in HittingArrows :
          Cardinality(Containing(last.mid.heap, last.mid.balloons.sprites,
                                 last.mid.heap[a].position)) = 3
    /\ RemovedBalloons = {last.mid.balloons.sprites[1]}
    /\ score = last.pre.score + 1

\* The arrow the i-th shot of the frame added, and the bow that shot it.
ShotArrow(i) == last.mid.flying_arrows[Len(last.pre.flying_arrows) + i]

ShootingBow(i) == bow_for_player(last.pre.bows, fed[i])

\* C23: when the loop over the flying arrows starts, the arrow of every
\* shot of the frame has the angle its bow had before the update (before
\* the turn of this frame) and stands dt unit vectors of that angle away
\* from the bow; the bow itself has been turned by then.
C23_ShootThenTurnThenMove ==
    last.op = "update" =>
        /\ Len(last.mid.flying_arrows) = Len(last.pre.flying_arrows) + Len(fed)
        /\ \A i \in 1..Len(fed) :
              LET before == last.pre.heap[ShootingBow(i)] IN
              /\ last.mid.heap[ShotArrow(i)].shooting
              /\ last.mid.heap[ShotArrow(i)].angle = before.angle
              /\ last.mid.heap[ShotArrow(i)].position =
                    add(before.position, times(to_unit_point(before.angle), last.dt))
        /\ \A k \in 1..Len(last.pre.bows) :
              LET w == last.pre.bows[k].bow IN
              last.mid.heap[w] =
                  turn_all(last.pre.heap, last.pre.bows, get_turn_angles(input_handler))[w]

\* C23 witness: a frame with dt > 0 in which the bow shot and was turned:
\* the arrow flies in the old direction of the bow, dt away from it.
C23_Witness ==
    /\ last.op = "update"
    /\ last.dt > 0
    /\ fed # <<>>
    /\ last.mid.heap[ShootingBow(1)].angle # last.pre.heap[ShootingBow(1)].angle
    /\ last.mid.heap[ShotArrow(1)].angle = last.pre.heap[ShootingBow(1)].angle
    /\ last.mid.heap[ShotArrow(1)].position # last.pre.heap[ShootingBow(1)].position

\* C26: in an update every arrow that was flying before it with shooting
\* true has moved by dt unit vectors of its angle when the loop over the
\* flying arrows starts, every other arrow (not shooting) is where it was,
\* and every bow is, at all times, where init_bows put it.
C26_OnlyFlyingArrowsMove ==
    /\ \A k \in 1..Len(bows) :
          heap[bows[k].bow].position =
              Point(screen_area.topleft.x
                        + (k * width(screen_area)) \div (Len(bows) + 1),
                    screen_area.bottomright.y - 120)
    /\ last.op = "update" =>
          /\ \A k \in 1..Len(last.pre.bows) :
                last.mid.heap[last.pre.bows[k].bow].position
                    = last.pre.heap[last.pre.bows[k].bow].position
          /\ \A a \in Range(last.pre.flying_arrows) :
                last.mid.heap[a].position =
                    IF last.pre.heap[a].shooting
                    THEN add(last.pre.heap[a].position,
                             times(to_unit_point(last.pre.heap[a].angle), last.dt))
                    ELSE last.pre.heap[a].position

\* C26 witness: an update with dt > 0 that fired a shot and turned the bow,
\* on a scene with an arrow that is not shooting among the flying arrows.
C26_Witness ==
    /\ last.op = "update"
    /\ last.dt > 0
    /\ fed # <<>>
    /\ \E a \in Range(last.pre.flying_arrows) : ~last.pre.heap[a].shooting
    /\ \E k \in 1..Len(last.pre.bows) :
          last.mid.heap[last.pre.bows[k].bow].angle
              # last.pre.heap[last.pre.bows[k].bow].angle

(***************************************************************************)
(* More claims about the game (checked under SpecGame), whose gameplay     *)
(* scene is built from the roster the start scene collected.               *)
(***************************************************************************)
\* The player ids of the bows, in the order of the roster.
BowPlayers(bws) == [k \in 1..Len(bws) |-> bws[k].player]

\* C22: a gameplay scene holds one bow for each player of its roster, the
\* k-th of them at x = left + k*width/(n+1), y = bottom - 120, its balloon
\* target is 3*n, and no frame changes which players have a bow.
C22_OneBowPerPlayerEvenlySpaced ==
    /\ [](active_scene = "GameplayScene" =>
            LET n == Len(bows) IN
            /\ n >= 1
            /\ last.op = "game_update" => BowPlayers(bows) = last.start.pending_players
            /\ \A j, k \in 1..n : bows[j].player = bows[k].player => j = k
            /\ \A k \in 1..n :
                  heap[bows[k].bow].position =
                      Point(scene_area.topleft.x + (k * width(scene_area)) \div (n + 1),
                            scene_area.bottomright.y - 120)
            /\ balloons.number_of_balloons = 3 * n)
    /\ [][active_scene = "GameplayScene" => BowPlayers(bows') = BowPlayers(bows)]_vars

\* C22 witness: a gameplay scene of two players, after a frame in which a
\* player shot.
C22_Witness ==
    /\ active_scene = "GameplayScene"
    /\ last.op = "update"
    /\ BowPlayers(bows) = <<"keyboard", "joystick0">>
    /\ flying_arrows # <<>>
    /\ balloons.number_of_balloons = 6

(***************************************************************************)
(* More claims about the game loop (checked under SpecLoop).  loop.polled  *)
(* is the batch the backend handed the latest iteration, loop.clock the    *)
(* value its clock returned last (empty before the first return).          *)
(***************************************************************************)
IsGameEvent(c) == c.call = "game.event"

IsGameTick(c) == c.call = "game.tick"

Positions(calls, name) == {i \in 1..Len(calls) : calls[i].call = name}

ClosestCommands(scene) ==
    {scene.games[i].command : i \in
        {j \in 1..Len(scene.games) :
            \A l \in 1..Len(scene.games) :
                distance_sq(scene.games[j].position, scene.cursor)
                    <= distance_sq(scene.games[l].position, scene.cursor)}}

\* C27: run() starts the game loop at most n times and, when it has
\* returned, has started it exactly n times; every round's COMMAND follows
\* the GAMELOOP_QUIT of that round directly, there is one COMMAND for each
\* finished round, and it carries the command of a game closest to the
\* cursor where the cursor then is.
C27_RoundsQuitThenCommand ==
    LET n == startup.loop_condition.iterations
        commands == Len(startup.commands)
    IN /\ loop.inits <= n
       /\ loop.quits <= loop.inits
       /\ loop.inits <= loop.quits + 1
       /\ commands <= loop.quits
       /\ loop.quits <= commands + 1
       /\ startup.pc = "condition" => (commands = loop.quits /\ loop.quits = loop.inits)
       /\ startup.pc = "loop" => (commands = loop.quits /\ loop.inits = loop.quits + 1)
       /\ startup.pc = "command" => (loop.quits = commands + 1 /\ loop.inits = loop.quits)
       /\ startup.pc = "returned" =>
             (loop.inits = n /\ loop.quits = n /\ commands = n)
       /\ last.op = "command" =>
             /\ last.after = "GAMELOOP_QUIT"
             /\ loop.latest = "COMMAND"
             /\ last.command = startup.commands[commands]
             /\ last.command \in ClosestCommands(startup.startup_scene)

\* C27 witness: run() has returned after two rounds; the cursor was moved
\* between them and the two commands differ.
C27_Witness ==
    /\ startup.pc = "returned"
    /\ startup.loop_condition.iterations = 2
    /\ Len(startup.commands) = 2
    /\ startup.commands[1] # startup.commands[2]

(***************************************************************************)
(* Claims about geometry and the hit test (checked under SpecGeometry).    *)
(***************************************************************************)
\* C28: contains(point) is true exactly when the point lies in the closed
\* box: left <= x <= right and top <= y <= bottom.
C28_ContainsIsTheClosedBox ==
    (geometry.subject = "contains" /\ geometry.result # <<>>) =>
        LET r == geometry.r
            point == geometry.point
        IN geometry.result[1] =
               (/\ r.topleft.x <= point.x
                /\ point.x <= r.bottomright.x
                /\ r.topleft.y <= point.y
                /\ point.y <= r.bottomright.y)

\* C28 witness: the bottom right corner of a rectangle with an inside was
\* found to be contained.
C28_Witness ==
    /\ geometry.subject = "contains"
    /\ geometry.result = <<TRUE>>
    /\ geometry.point = geometry.r.bottomright
    /\ geometry.r.topleft # geometry.r.bottomright

\* The amount is 0 (on doubles: 0.0).
GeoZero(floats, amount) == IF floats THEN amount = Float(0, 0) ELSE amount = 0

\* r.inflate(amount) and -amount, on whole numbers or on doubles.
GeoInflated(floats, r, amount) ==
    IF floats THEN inflate_float(r, amount) ELSE inflate(r, amount)

GeoNegated(floats, amount) == IF floats THEN float_neg(amount) ELSE -amount

\* deflate(a) gave what inflate(-a) gives, and a call with amount 0 gave
\* the rectangle it was called on.
DeflateIsInflateNegated ==
    geometry.subject = "rectangle" =>
        \A i \in 1..Len(geometry.ops) :
            /\ geometry.ops[i].name = "deflate" =>
                  geometry.trail[i + 1] =
                      GeoInflated(geometry.floats, geometry.trail[i],
                                  GeoNegated(geometry.floats, geometry.ops[i].amount))
            /\ GeoZero(geometry.floats, geometry.ops[i].amount) =>
                  geometry.trail[i + 1] = geometry.trail[i]

\* inflate(a) directly followed by deflate(a) gave the first rectangle
\* back, on the rectangles picked out by floats.
RoundTripGivesBack(floats) ==
    geometry.subject = "rectangle" =>
        \A i \in 1..(Len(geometry.ops) - 1) :
            (/\ geometry.floats \in floats
             /\ geometry.ops[i].name = "inflate"
             /\ geometry.ops[i + 1].name = "deflate"
             /\ geometry.ops[i].amount = geometry.ops[i + 1].amount)
            => geometry.trail[i + 2] = geometry.trail[i]

\* C29 as stated: deflate(a) = inflate(-a), inflate(a).deflate(a) = r and
\* inflate(0) = deflate(0) = r for every rectangle and amount.  Violated:
\* with r = (0.0, 0.0)-(0.1, 0.1) and a = 0.2, 0.1 + 0.2 - 0.2 is
\* 0.10000000000000003.
C29_RoundTripForEveryRectangle ==
    DeflateIsInflateNegated /\ RoundTripGivesBack(BOOLEAN)

\* C29 amended: deflate(a) = inflate(-a) and inflate(0) = deflate(0) = r for
\* every rectangle and amount; inflate(a).deflate(a) = r when coordinates
\* and amount are whole numbers, whose sums are exact.
C29_RoundTripOnWholeNumbers ==
    DeflateIsInflateNegated /\ RoundTripGivesBack({FALSE})

\* C29 witness: a rectangle on whole numbers was inflated and then deflated
\* by the same amount other than 0 and is the rectangle it was at first.
C29_Witness ==
    /\ geometry.subject = "rectangle"
    /\ ~geometry.floats
    /\ Len(geometry.ops) = 2
    /\ geometry.ops[1] = [name |-> "inflate", amount |-> 2]
    /\ geometry.ops[2] = [name |-> "deflate", amount |-> 2]
    /\ geometry.trail[2] # geometry.trail[1]
    /\ geometry.trail[3] = geometry.trail[1]

\* C30: hits_baloon is true exactly when the arrow's position is no farther
\* from the balloon's centre than the radius; a distance equal to the
\* radius is a hit.
C30_HitsWithinRadiusRimIncluded ==
    (geometry.subject = "hit" /\ geometry.result # <<>>) =>
        geometry.result[1] =
            (distance_sq(geometry.balloon, geometry.arrow) <= BalloonRadius * BalloonRadius)

\* C30 witness: an arrow exactly one radius away, off the axes, is a hit.
C30_Witness ==
    /\ geometry.subject = "hit"
    /\ geometry.result = <<TRUE>>
    /\ geometry.arrow = Point(50 + 24, 50 + 32)
    /\ distance_sq(geometry.balloon, geometry.arrow) = BalloonRadius * BalloonRadius

(***************************************************************************)
(* Claims about input sources without a bow (checked under SpecGame).      *)
(***************************************************************************)
\* The players that have a bow before the update, and the last bow.
Roster == {last.pre.bows[k].player : k \in 1..Len(last.pre.bows)}

LastBow == last.pre.bows[Len(last.pre.bows)].bow

\* The bow that serves an input source: its own, else the last.
BowOfSource(source) ==
    IF source \in Roster
    THEN last.pre.bows[CHOOSE k \in 1..Len(last.pre.bows) :
                           last.pre.bows[k].player = source].bow
    ELSE LastBow

\* The heap after the turn angles that are served by bow b were applied to
\* it, in order.
RECURSIVE TurnedBy(_, _, _)
TurnedBy(h, b, turn_angles) ==
    IF turn_angles = <<>> THEN h
    ELSE TurnedBy(IF BowOfSource(Head(turn_angles).key) = b
                  THEN turn(h, b, Head(turn_angles).value) ELSE h,
                  b, Tail(turn_angles))

\* C31: in an update of the gameplay scene every shoot event of the frame
\* adds one flying arrow; the arrow of a source without a bow is shot by
\* the last bow of the roster (it has that bow's angle and starts from its
\* position), and a turn of a source without a bow turns the last bow.
C31_SourcesWithoutBowUseTheLastBow ==
    last.op = "update" =>
        /\ Len(last.mid.flying_arrows) = Len(last.pre.flying_arrows) + Len(fed)
        /\ \A i \in 1..Len(fed) :
              LET before == last.pre.heap[BowOfSource(fed[i])] IN
              /\ last.mid.heap[ShotArrow(i)].shooting
              /\ last.mid.heap[ShotArrow(i)].angle = before.angle
              /\ last.mid.heap[ShotArrow(i)].position =
                    add(before.position, times(to_unit_point(before.angle), last.dt))
        /\ \A k \in 1..Len(last.pre.bows) :
              LET w == last.pre.bows[k].bow IN
              last.mid.heap[w] =
                  TurnedBy(last.pre.heap, w, get_turn_angles(input_handler))[w]

\* C31 witness: in a scene of two bows a joystick that is no player shot;
\* its arrow left from the second bow, at the angle that joystick had
\* turned the second bow to.
C31_Witness ==
    /\ last.op = "update"
    /\ Len(last.pre.bows) = 2
    /\ \E i \in 1..Len(fed) :
          /\ fed[i] \notin Roster
          /\ last.pre.heap[LastBow].angle # up
          /\ last.pre.heap[last.pre.bows[1].bow].angle = up
          /\ last.mid.heap[ShotArrow(i)].angle = last.pre.heap[LastBow].angle
          /\ last.mid.heap[ShotArrow(i)].position.x
                = last.pre.heap[LastBow].position.x - last.dt
    /\ last.dt > 0

(***************************************************************************)
(* Claims about the switch from the start scene to the gameplay scene      *)
(* (checked under SpecGame).                                               *)
(***************************************************************************)
\* The update of the game that replaced the start scene by a gameplay scene.
Switched ==
    /\ last.op = "game_update"
    /\ last.was = "StartScene"
    /\ active_scene = "GameplayScene"

\* C32: right after the update that switched, the gameplay scene has no
\* flying arrow, score 0 and the input handler of InputHandler.__init__ (no
\* shot, no turn factor), and it has not been updated: it holds no balloon
\* yet and every bow points up.
C32_GameplaySceneStartsFresh ==
    Switched =>
        /\ flying_arrows = <<>>
        /\ score = 0
        /\ input_handler = InputHandler
        /\ input_handler.shots_triggered = <<>>
        /\ input_handler.turn_factors = <<>>
        /\ balloons.sprites = <<>>
        /\ \A k \in 1..Len(bows) : heap[bows[k].bow].angle = up

\* C32 witness: the switch came with shots in the frame, after an update
\* with dt > 0 of a start scene whose input handler had a turn factor other
\* than 0 latched, in a frame that would have spawned balloons.
C32_Witness ==
    /\ Switched
    /\ fed # <<>>
    /\ last.dt > 0
    /\ last.start.input_handler.shots # <<>>
    /\ \E i \in 1..Len(last.start.input_handler.turn_factors) :
          last.start.input_handler.turn_factors[i].value # 0
    /\ input_handler.turn_factors = <<>>
    /\ balloons.number_of_balloons > Len(balloons.sprites)

\* C34: an update of the start scene keeps every source that has shot so
\* far in pending_players (those from before and those of this frame, also
\* the ones that come after the promoting shot), each once; the roster of
\* the gameplay scene is that whole list.
C34_RosterHoldsEverySourceOnce ==
    (last.op = "game_update" /\ last.was = "StartScene") =>
        LET pending == last.start.pending_players IN
        /\ Range(pending) = Range(last.pre.pending_players) \cup Range(fed)
        /\ \A i, j \in 1..Len(pending) : pending[i] = pending[j] => i = j
        /\ active_scene = "GameplayScene" =>
              /\ BowPlayers(bows) = pending
              /\ \E i \in 1..Len(fed) : fed[i] \in Range(last.pre.pending_players)

\* C34 witness: the keyboard promoted the roster and joystick 0 shot for the
\* first time later in the same frame; both have a bow.
C34_Witness ==
    /\ Switched
    /\ last.pre.pending_players = <<"keyboard">>
    /\ fed = <<"keyboard", "joystick0">>
    /\ BowPlayers(bows) = <<"keyboard", "joystick0">>

(***************************************************************************)
(* Claims about exceptions in the game loop (checked under SpecLoop).      *)
(***************************************************************************)
\* The raise of another exception sits at position i of the last iteration.
ErrorRaisedAt(i) == i \in 1..Len(loop.frame) /\ loop.frame[i] = RaiseError

\* C33: when game.event or game.tick has raised an exception other than
\* ExitGameLoop, run() has notified GAMELOOP_QUIT once, as the last
\* notification and right after the raise, has called the backend's quit
\* once after it, and the exception has left run().
C33_OtherExceptionsQuitAndPropagate ==
    /\ loop.quits <= 1
    /\ loop.backend_quits <= 1
    /\ (\E i \in 1..Len(loop.frame) : ErrorRaisedAt(i)) <=> loop.pc = "raised"
    /\ loop.pc = "raised" =>
          /\ loop.propagated
          /\ loop.quits = 1
          /\ loop.backend_quits = 1
          /\ loop.latest = "GAMELOOP_QUIT"
          /\ \E i \in 1..Len(loop.frame) :
                /\ ErrorRaisedAt(i)
                /\ Len(loop.frame) = i + 2
                /\ loop.frame[i + 1] = Notify([name |-> "GAMELOOP_QUIT"])
                /\ loop.frame[i + 2] = Call("pygame.quit")

\* C33 witness: game.tick raised in a later iteration, after the events of
\* that iteration had been handed to the game.
C33_Witness ==
    /\ loop.pc = "raised"
    /\ loop.polled # <<>>
    /\ \E i \in 1..Len(loop.frame) :
          /\ ErrorRaisedAt(i)
          /\ i > 2
          /\ loop.frame[i - 2].call = "game.tick"
          /\ loop.frame[i - 2].dt > 0
    /\ loop.quits = 1
    /\ loop.propagated

(***************************************************************************)
(* Claims about the test mode (checked under SpecTestMode).                *)
(***************************************************************************)
\* The batch of the script at which run() leaves: the first one with an
\* event that closes the window.
closes_window(batch) == \E i \in 1..Len(batch) : raises_exit(batch[i])

first_closing(script) ==
    CHOOSE i \in 1..Len(script) :
        /\ closes_window(script[i])
        /\ \A j \in 1..(i - 1) : ~closes_window(script[j])

\* Every iteration takes the first batch that is left of the script.
OneBatchPerFrameInOrder ==
    [][loop.pc = "running" =>
          /\ loop.events # <<>>
          /\ loop'.polled = Head(loop.events)
          /\ loop'.events = Tail(loop.events)]_vars

\* C35 as stated: run_in_test_mode returns for every script, every iteration
\* takes the next batch of the script, and in the end the appended
\* window-close batch (the last of the queue) has been dispatched,
\* GAMELOOP_QUIT notified and run() has returned.
C35_AppendedBatchIsDispatched ==
    /\ <>(/\ loop.pc = "returned"
          /\ loop.quits = 1
          /\ loop.latest = "GAMELOOP_QUIT"
          /\ loop.events = <<>>
          /\ loop.polled = loop.script[Len(loop.script)])
    /\ OneBatchPerFrameInOrder
    /\ [](loop.script[Len(loop.script)] = <<create_event_user_closed_window>>)

\* C35 amended: run_in_test_mode returns for every script, every iteration
\* takes the next batch of the script, and in the end the first batch of
\* the queue that closes the window (one of the script, or else the
\* appended one) has been dispatched, the batches after it are still
\* queued, GAMELOOP_QUIT is notified once and run() has returned.
C35_TestModeTerminates ==
    /\ <>(/\ loop.pc = "returned"
          /\ loop.quits = 1
          /\ loop.latest = "GAMELOOP_QUIT"
          /\ loop.polled = loop.script[first_closing(loop.script)]
          /\ loop.events = SubSeq(loop.script, first_closing(loop.script) + 1,
                                  Len(loop.script)))
    /\ OneBatchPerFrameInOrder
    /\ [](loop.script[Len(loop.script)] = <<create_event_user_closed_window>>)

\* C35 witness: run() returned after a script of the full length, all of
\* whose batches were delivered, the appended one last.
C35_Witness ==
    /\ loop.pc = "returned"
    /\ Len(loop.script) = MaxBatches + 1
    /\ loop.events = <<>>
    /\ loop.polled = <<create_event_user_closed_window>>
    /\ loop.quits = 1
    /\ active_scene = "StartScene"
    /\ pending_players # <<>>

====
